---------------------------- MODULE Spec2Model ----------------------------
(***************************************************************************)
(* A model of the asyncio-redis client: the chunk queue (MultiBuffer), the *)
(* streaming RESP decoder (RESPParser), the command catalog's encoding     *)
(* choice and the serial command pump (RedisClient).                       *)
(*                                                                         *)
(* Bytes are modelled as one-character strings; the two terminator bytes   *)
(* are written "CR" and "LF".  A JavaScript number is a record             *)
(* [nan, n] so that NaN (parseInt of a non-numeric text) is a value of its *)
(* own.  A JavaScript value handed around by the decoder is a record with  *)
(* a tag: tokens are null | string | Buffer, replies are null | number |   *)
(* string | Error | array.                                                 *)
(***************************************************************************)
EXTENDS Integers, Sequences, FiniteSets, TLC

VARIABLES
  \* RESPParser
  _readBuffer,                \* MultiBuffer: [buffers, length]
  _remainingBulkStringBytes,  \* JS number
  _tokenResolver,             \* TRUE iff a resolver is stored
  _pendingTokens,             \* sequence of tokens
  parserFault,                \* an exception escaped _write
  fed,                        \* number of chunks written to the parser
  \* the outstanding top-level getResponse() call
  respPc,                     \* "none" | "await" | "ready" | "threw"
  respStack,                  \* array-collecting invocations, outermost first
  awaited,                    \* the token the awaited promise resolved with
  \* RedisClient
  _commandQueue,              \* ids of the queued commands, in order
  _running,
  inflight,                   \* id of the command awaiting its reply, 0 if none
  submitted,                  \* per submitted command: [cmd, inline]
  completion,                 \* per submitted command: its promise's state
  thrown,                     \* catalog calls that threw: [msg, at]
  \* net.Socket
  socketWrites,               \* calls made on the socket, in order
  socketEnded,                \* end() was called
  piped,                      \* the socket is piped into the parser
  connection,                 \* connect(): [listeners, promise, settled,
                              \*   clients, emitted]
  \* the environment: the server's side of the byte stream, and a direct
  \* consumer of the decoder
  inbound,                    \* bytes sent by the server, not yet delivered
  sent,                       \* the reply frames the server has sent
  streamOpen,                 \* the server has not closed the stream
  replies                     \* results of getResponse() calls made directly

vars == <<_readBuffer, _remainingBulkStringBytes, _tokenResolver,
          _pendingTokens, parserFault, fed, respPc, respStack, awaited,
          _commandQueue, _running, inflight, submitted, completion, thrown,
          socketWrites, socketEnded, piped, connection,
          inbound, sent, streamOpen, replies>>

parserVars == <<_readBuffer, _remainingBulkStringBytes, _tokenResolver,
                _pendingTokens, parserFault, fed>>
respVars   == <<respPc, respStack, awaited>>
clientVars == <<_commandQueue, _running, inflight, submitted, completion,
                thrown>>
socketVars == <<socketWrites, socketEnded, piped, connection>>

---------------------------------------------------------------------------
(* Bytes, texts and JavaScript numbers                                     *)

CRLF == <<"CR", "LF">>

Digits == {"0", "1", "2", "3", "4", "5", "6", "7", "8", "9"}

DigitVal(d) ==
  CASE d = "0" -> 0 [] d = "1" -> 1 [] d = "2" -> 2 [] d = "3" -> 3
    [] d = "4" -> 4 [] d = "5" -> 5 [] d = "6" -> 6 [] d = "7" -> 7
    [] d = "8" -> 8 [] d = "9" -> 9

DigitOf(n) ==
  CASE n = 0 -> "0" [] n = 1 -> "1" [] n = 2 -> "2" [] n = 3 -> "3"
    [] n = 4 -> "4" [] n = 5 -> "5" [] n = 6 -> "6" [] n = 7 -> "7"
    [] n = 8 -> "8" [] n = 9 -> "9"

Num(n) == [nan |-> FALSE, n |-> n]
NaN    == [nan |-> TRUE, n |-> 0]

\* JS comparisons with a number operand: every comparison with NaN is false.
NumEq(x, k) == ~x.nan /\ x.n = k
\* a comparison that admits equality
NumGe(x, k) == ~x.nan /\ x.n >= k

NumGt(x, k) == ~x.nan /\ x.n > k

RECURSIVE DigitRun(_)
\* the longest prefix of s made of decimal digits
DigitRun(s) ==
  IF s = <<>> \/ Head(s) \notin Digits THEN <<>>
  ELSE <<Head(s)>> \o DigitRun(Tail(s))

RECURSIVE DigitsValue(_, _)
DigitsValue(ds, acc) ==
  IF ds = <<>> THEN acc
  ELSE DigitsValue(Tail(ds), 10 * acc + DigitVal(Head(ds)))

RECURSIVE SkipSpaces(_)
SkipSpaces(s) ==
  IF s # <<>> /\ Head(s) = " " THEN SkipSpaces(Tail(s)) ELSE s

\* parseInt(text, 10): leading blanks, an optional sign, then the longest run
\* of digits; NaN when there is no digit.
parseInt(text) ==
  LET s      == SkipSpaces(text)
      signed == s # <<>> /\ Head(s) \in {"-", "+"}
      neg    == s # <<>> /\ Head(s) = "-"
      run    == DigitRun(IF signed THEN Tail(s) ELSE s)
  IN  IF run = <<>> THEN NaN
      ELSE Num(IF neg THEN 0 - DigitsValue(run, 0) ELSE DigitsValue(run, 0))

RECURSIVE ToDecimal(_)
\* the decimal text of a natural number, as a template literal renders it
ToDecimal(n) ==
  IF n < 10 THEN <<DigitOf(n)>>
  ELSE ToDecimal(n \div 10) \o <<DigitOf(n % 10)>>

\* Buffer.toString('utf-8'): a byte that is no valid UTF-8 ("HI" stands for a
\* lone byte of 0x80..0xFF) decodes to the replacement character U+FFFD
toString(buf) ==
  [i \in 1..Len(buf) |-> IF buf[i] = "HI" THEN "FFFD" ELSE buf[i]]

RECURSIVE Concat(_)
\* Buffer.concat
Concat(bufs) ==
  IF bufs = <<>> THEN <<>> ELSE Head(bufs) \o Concat(Tail(bufs))

---------------------------------------------------------------------------
(* MultiBuffer                                                             *)

EmptyMultiBuffer == [buffers |-> <<>>, length |-> 0]

\* an add that pushes the buffer and leaves _length as it was
addKeepingLength(mb, buffer) ==
  [buffers |-> Append(mb.buffers, buffer), length |-> mb.length]

add(mb, buffer) ==
  [buffers |-> Append(mb.buffers, buffer), length |-> mb.length + Len(buffer)]

RECURSIVE ShiftLoop(_, _, _, _, _)
\* the while loop of shift: takes whole buffers, splits the last one
ShiftLoop(buffers, length, bufs, lenacc, numBytes) ==
  IF ~(lenacc < numBytes)
  THEN [buffers |-> buffers, length |-> length, bufs |-> bufs]
  ELSE LET buf       == Head(buffers)
           remaining == numBytes - lenacc
       IN  IF Len(buf) > remaining
           THEN ShiftLoop(<<SubSeq(buf, remaining + 1, Len(buf))>>
                            \o Tail(buffers),
                          length - remaining,
                          Append(bufs, SubSeq(buf, 1, remaining)),
                          lenacc + remaining, numBytes)
           ELSE ShiftLoop(Tail(buffers), length - Len(buf),
                          Append(bufs, buf), lenacc + Len(buf), numBytes)

\* a shift that returns the first piece it took instead of all of them
shiftFirstPiece(mb, numBytes) ==
  IF numBytes > mb.length
  THEN [threw |-> TRUE, mb |-> mb, out |-> <<>>]
  ELSE LET r == ShiftLoop(mb.buffers, mb.length, <<>>, 0, numBytes)
       IN  [threw |-> FALSE,
            mb    |-> [buffers |-> r.buffers, length |-> r.length],
            out   |-> IF r.bufs = <<>> THEN <<>> ELSE Head(r.bufs)]

\* a shift without the test of line 28: asked for more than is held, it
\* takes every buffer and then fails on the missing one
shiftWithoutCheck(mb, numBytes) ==
  IF numBytes > mb.length
  THEN [threw |-> TRUE, mb |-> [buffers |-> <<>>, length |-> 0],
        out |-> <<>>]
  ELSE LET r == ShiftLoop(mb.buffers, mb.length, <<>>, 0, numBytes)
       IN  [threw |-> FALSE,
            mb    |-> [buffers |-> r.buffers, length |-> r.length],
            out   |-> Concat(r.bufs)]

\* shift(numBytes): [threw, mb, out]
shift(mb, numBytes) ==
  IF numBytes > mb.length
  THEN [threw |-> TRUE, mb |-> mb, out |-> <<>>]
  ELSE LET r == ShiftLoop(mb.buffers, mb.length, <<>>, 0, numBytes)
       IN  [threw |-> FALSE,
            mb    |-> [buffers |-> r.buffers, length |-> r.length],
            out   |-> Concat(r.bufs)]

\* Buffer.indexOf('\r\n') on one buffer: 0-based, -1 when absent
BufferIndexOf(buf) ==
  LET hits == {i \in 1..(Len(buf) - 1) : buf[i] = "CR" /\ buf[i + 1] = "LF"}
  IN  IF hits = {} THEN -1
      ELSE (CHOOSE i \in hits : \A j \in hits : i <= j) - 1

RECURSIVE IndexOfLoop(_, _, _)
IndexOfLoop(buffers, i, offset) ==
  IF i > Len(buffers) THEN -1
  ELSE LET idx == BufferIndexOf(buffers[i])
       IN  IF idx # -1 THEN offset + idx
           ELSE IndexOfLoop(buffers, i + 1, offset + Len(buffers[i]))

\* indexOf('\r\n'): each held buffer is searched on its own
indexOf(mb) == IndexOfLoop(mb.buffers, 1, 0)

---------------------------------------------------------------------------
(* RESPParser: tokens                                                      *)

NullToken      == [k |-> "null", b |-> <<>>]
StrToken(text) == [k |-> "str", b |-> text]
BufToken(buf)  == [k |-> "buf", b |-> buf]

RECURSIVE ProcessLoop(_, _, _)
\* the while loop of _processReadBuffers; out collects the tokens handed to
\* _pushToken, in order
ProcessLoop(rb, remaining, out) ==
  IF ~(rb.length > 0)
  THEN [rb |-> rb, remaining |-> remaining, out |-> out, threw |-> FALSE]
  ELSE
    LET terminal == indexOf(rb) IN
    IF terminal = -1
    THEN [rb |-> rb, remaining |-> remaining, out |-> out, threw |-> FALSE]
    ELSE
      LET s1  == shift(rb, terminal)
          msg == s1.out
          rb2 == shift(s1.mb, 2).mb
      IN
      IF msg # <<>> /\ Head(msg) = "$"
      THEN
        LET len == parseInt(Tail(msg)) IN
        IF NumEq(len, -1)
        THEN ProcessLoop(rb2, remaining, Append(out, NullToken))
        ELSE IF NumEq(len, 0)
        THEN ProcessLoop(rb2, remaining, Append(out, StrToken(<<>>)))
        ELSE IF ~len.nan /\ len.n + 2 <= rb2.length
        THEN
          LET s3 == shift(rb2, len.n)
              s4 == shift(s3.mb, 2)
          IN  IF s4.threw
              THEN [rb |-> s3.mb, remaining |-> remaining,
                    out |-> Append(out, BufToken(s3.out)), threw |-> TRUE]
              ELSE ProcessLoop(s4.mb, remaining,
                               Append(out, BufToken(s3.out)))
        ELSE ProcessLoop(rb2, len, out)
      ELSE ProcessLoop(rb2, remaining, Append(out, StrToken(toString(msg))))

\* _processReadBuffers: [rb, remaining, out, threw]
_processReadBuffers(rb, remaining) ==
  IF NumGt(remaining, 0)
  THEN IF rb.length >= remaining.n + 2
       THEN LET s1 == shift(rb, remaining.n)
                s2 == shift(s1.mb, 2)
            IN  ProcessLoop(s2.mb, Num(-1), <<BufToken(s1.out)>>)
       ELSE [rb |-> rb, remaining |-> remaining, out |-> <<>>,
             threw |-> FALSE]
  ELSE ProcessLoop(rb, remaining, <<>>)

\* a _pushToken that hands the token over and keeps the resolver stored
PushTokensKeepingResolver(out, resolver, pending) ==
  IF out # <<>> /\ resolver
  THEN [resolver |-> TRUE, pending |-> pending \o Tail(out),
        woke |-> TRUE, token |-> Head(out)]
  ELSE [resolver |-> resolver, pending |-> pending \o out,
        woke |-> FALSE, token |-> NullToken]

\* _pushToken applied to each token of out in turn: the first one goes to the
\* stored resolver when there is one, the others to _pendingTokens.
\* [resolver, pending, woke, token]
PushTokens(out, resolver, pending) ==
  IF out # <<>> /\ resolver
  THEN [resolver |-> FALSE, pending |-> pending \o Tail(out),
        woke |-> TRUE, token |-> Head(out)]
  ELSE [resolver |-> resolver, pending |-> pending \o out,
        woke |-> FALSE, token |-> NullToken]

---------------------------------------------------------------------------
(* RESPParser.getResponse                                                  *)

\* the text after the first blank, the whole text when there is none
AfterCode(text) ==
  LET blanks == {i \in DOMAIN text : text[i] = " "} IN
  IF blanks = {} THEN text
  ELSE SubSeq(text, (CHOOSE i \in blanks : \A j \in blanks : i <= j) + 1,
              Len(text))

\* an Error built from the message without its leading code token
JsErrorWithoutCode(text) == [t |-> "err", v |-> AfterCode(text)]

Null           == [t |-> "null"]
JsNumber(x)    == [t |-> "num", v |-> x]
JsString(text) == [t |-> "str", v |-> text]
JsError(text)  == [t |-> "err", v |-> text]
JsArray(elems) == [t |-> "arr", v |-> elems]

Outcome(pc, v, stack, pending) ==
  [pc |-> pc, v |-> v, stack |-> stack, pending |-> pending]

RECURSIVE Return(_, _, _, _)
RECURSIVE Call(_, _, _)
RECURSIVE Dispatch(_, _, _, _)

\* an array loop that does not store an element that is null
ReturnSkippingNull(v, stack, pending, resolver) ==
  IF stack = <<>> THEN Outcome("done", v, <<>>, pending)
  ELSE
    LET top  == stack[Len(stack)]
        rest == SubSeq(stack, 1, Len(stack) - 1)
    IN  IF v.t = "err" THEN Return(v, rest, pending, resolver)
        ELSE IF v.t = "null" THEN Call(stack, pending, resolver)
        ELSE
          LET res == Append(top.res, v) IN
          IF Len(res) < top.arrlen
          THEN Call(Append(rest, [top EXCEPT !.res = res]), pending, resolver)
          ELSE Return(JsArray(res), rest, pending, resolver)

\* An invocation of getResponse returns v to the array loops that enclose it
\* (stack, outermost first): the loop of lines 667-671, or the top-level
\* caller when there is none.
Return(v, stack, pending, resolver) ==
  IF stack = <<>> THEN Outcome("done", v, <<>>, pending)
  ELSE
    LET top  == stack[Len(stack)]
        rest == SubSeq(stack, 1, Len(stack) - 1)
    IN  IF v.t = "err" THEN Return(v, rest, pending, resolver)
        ELSE
          LET res == Append(top.res, v) IN
          IF Len(res) < top.arrlen
          THEN Call(Append(rest, [top EXCEPT !.res = res]), pending, resolver)
          ELSE Return(JsArray(res), rest, pending, resolver)

\* a _getNextToken that stores its resolver over the one already stored
CallOverwriting(stack, pending, resolver) ==
  IF pending # <<>>
  THEN Dispatch(Head(pending), stack, Tail(pending), resolver)
  ELSE Outcome("await", Null, stack, pending)

\* getResponse is entered: _getNextToken
Call(stack, pending, resolver) ==
  IF pending # <<>>
  THEN Dispatch(Head(pending), stack, Tail(pending), resolver)
  ELSE IF resolver THEN Outcome("threw", Null, <<>>, pending)
  ELSE Outcome("await", Null, stack, pending)

\* getResponse resumes with the token it awaited
Dispatch(token, stack, pending, resolver) ==
  IF token.k = "null" THEN Return(Null, stack, pending, resolver)
  ELSE IF token.k = "buf"
  THEN Return(JsString(toString(token.b)), stack, pending, resolver)
  ELSE IF token.b = <<>> THEN Outcome("threw", Null, <<>>, pending)
  ELSE IF Head(token.b) = "*"
  THEN LET arrlen == parseInt(Tail(token.b)) IN
       IF NumEq(arrlen, -1) THEN Return(Null, stack, pending, resolver)
       ELSE IF NumGt(arrlen, 0)
       THEN Call(Append(stack, [arrlen |-> arrlen.n, res |-> <<>>]),
                 pending, resolver)
       ELSE Return(JsArray(<<>>), stack, pending, resolver)
  ELSE IF Head(token.b) = ":"
  THEN Return(JsNumber(parseInt(Tail(token.b))), stack, pending, resolver)
  ELSE IF Head(token.b) = "+"
  THEN Return(JsString(Tail(token.b)), stack, pending, resolver)
  ELSE IF Head(token.b) = "-"
  THEN Return(JsError(Tail(token.b)), stack, pending, resolver)
  ELSE Outcome("threw", Null, <<>>, pending)

---------------------------------------------------------------------------
(* RESPParser as a state machine                                           *)

InitParser ==
  /\ _readBuffer = EmptyMultiBuffer
  /\ _remainingBulkStringBytes = Num(-1)
  /\ _tokenResolver = FALSE
  /\ _pendingTokens = <<>>
  /\ parserFault = FALSE
  /\ fed = 0

\* _write(chunk, encoding, callback); a token handed to the stored resolver
\* makes the awaiting getResponse ready to resume
_write(chunk) ==
  LET r == _processReadBuffers(add(_readBuffer, chunk),
                               _remainingBulkStringBytes)
      p == PushTokens(r.out, _tokenResolver, _pendingTokens)
  IN  /\ _readBuffer' = r.rb
      /\ _remainingBulkStringBytes' = r.remaining
      /\ _tokenResolver' = p.resolver
      /\ _pendingTokens' = p.pending
      /\ parserFault' = r.threw
      /\ fed' = fed + 1
      /\ IF p.woke
         THEN respPc' = "ready" /\ awaited' = p.token
         ELSE UNCHANGED <<respPc, awaited>>
      /\ UNCHANGED respStack

\* a dispose that leaves the token FIFO as it is
disposeKeepingTokens ==
  /\ _readBuffer' = EmptyMultiBuffer
  /\ _remainingBulkStringBytes' = Num(-1)
  /\ _tokenResolver' = FALSE
  /\ UNCHANGED <<_pendingTokens, parserFault, fed>>

\* a dispose that leaves the stored resolver in place
disposeKeepingResolver ==
  /\ _readBuffer' = EmptyMultiBuffer
  /\ _remainingBulkStringBytes' = Num(-1)
  /\ _pendingTokens' = <<>>
  /\ UNCHANGED <<_tokenResolver, parserFault, fed>>

\* dispose()
dispose ==
  /\ _readBuffer' = EmptyMultiBuffer
  /\ _remainingBulkStringBytes' = Num(-1)
  /\ _tokenResolver' = FALSE
  /\ _pendingTokens' = <<>>
  /\ UNCHANGED <<parserFault, fed>>

---------------------------------------------------------------------------
(* The server's replies: RESP frames and the values they stand for.  A     *)
(* bulk string stands for its bytes (tag "bulk").                          *)

Bulk(bytes) == [t |-> "bulk", v |-> bytes]
Malformed   == [t |-> "malformed"]
Threw       == [t |-> "threw"]

Line(text) == text \o CRLF

Frames ==
  [ok        |-> [bytes |-> Line(<<"+", "A">>),
                  val   |-> JsString(<<"A">>)],
   err       |-> [bytes |-> Line(<<"-", "E">>),
                  val   |-> JsError(<<"E">>)],
   int       |-> [bytes |-> Line(<<":", "1">>),
                  val   |-> JsNumber(Num(1))],
   nullbulk  |-> [bytes |-> Line(<<"$", "-", "1">>),
                  val   |-> Null],
   nullarr   |-> [bytes |-> Line(<<"*", "-", "1">>),
                  val   |-> Null],
   emptybulk |-> [bytes |-> Line(<<"$", "0">>) \o CRLF,
                  val   |-> Bulk(<<>>)],
   bulk      |-> [bytes |-> Line(<<"$", "1">>) \o Line(<<"v">>),
                  val   |-> Bulk(<<"v">>)],
   emptyarr  |-> [bytes |-> Line(<<"*", "0">>),
                  val   |-> JsArray(<<>>)],
   arrerr    |-> [bytes |-> Line(<<"*", "2">>) \o Line(<<"-", "E">>)
                              \o Line(<<":", "1">>),
                  val   |-> JsArray(<<JsError(<<"E">>), JsNumber(Num(1))>>)],
   unknown   |-> [bytes |-> Line(<<"?", "X">>),
                  val   |-> Malformed],
   errcode   |-> [bytes |-> Line(<<"-", "C", " ", "m">>),
                  val   |-> JsError(<<"C", " ", "m">>)],
   binbulk   |-> [bytes |-> Line(<<"$", "1">>) \o Line(<<"HI">>),
                  val   |-> Bulk(<<"HI">>)],
   badbulk   |-> [bytes |-> Line(<<"$", "x">>),
                  val   |-> Malformed],
   negbulk   |-> [bytes |-> Line(<<"$", "-", "2">>),
                  val   |-> Malformed],
   badarr    |-> [bytes |-> Line(<<"*", "x">>),
                  val   |-> Malformed],
   negarr    |-> [bytes |-> Line(<<"*", "-", "2">>),
                  val   |-> Malformed]]

RECURSIVE AsText(_)
\* a reply value with every bulk string read as text (Buffer.toString)
AsText(v) ==
  IF v.t = "bulk" THEN JsString(toString(v.v))
  ELSE IF v.t = "arr"
  THEN JsArray([i \in 1..Len(v.v) |-> AsText(v.v[i])])
  ELSE v

Expected(name) == AsText(Frames[name].val)

RECURSIVE StreamBytes(_)
StreamBytes(names) ==
  IF names = <<>> THEN <<>>
  ELSE Frames[Head(names)].bytes \o StreamBytes(Tail(names))

---------------------------------------------------------------------------
(* The decoder on its own: a reply stream is fed in chunks of any sizes to *)
(* _write while a consumer calls getResponse, one call at a time.          *)

MaxFrames == 2
MaxChunks == 3

DecFrames == {"ok", "err", "int", "nullbulk", "nullarr", "emptybulk",
              "bulk", "emptyarr", "arrerr"}

\* a client constructed on a socket that is connected: connect() has
\* resolved with it and has no listener left
Established ==
  [listeners |-> {}, promise |-> "resolved", settled |-> 1, clients |-> 1,
   emitted |-> <<"connect">>]

InitIdleClient ==
  /\ connection = Established
  /\ _commandQueue = <<>>
  /\ _running = FALSE
  /\ inflight = 0
  /\ submitted = <<>>
  /\ completion = <<>>
  /\ thrown = <<>>
  /\ socketWrites = <<>>
  /\ socketEnded = FALSE
  /\ piped = TRUE

InitDec ==
  /\ InitParser
  /\ InitIdleClient
  /\ respPc = "none" /\ respStack = <<>> /\ awaited = NullToken
  /\ \E n \in 1..MaxFrames : \E s \in [1..n -> DecFrames] :
       sent = s /\ inbound = StreamBytes(s)
  /\ streamOpen = TRUE
  /\ replies = <<>>

Feed ==
  /\ ~parserFault
  /\ fed < MaxChunks
  /\ \E n \in 1..Len(inbound) :
       /\ _write(SubSeq(inbound, 1, n))
       /\ inbound' = SubSeq(inbound, n + 1, Len(inbound))
  /\ UNCHANGED <<clientVars, socketVars, sent, streamOpen, replies>>

\* what the consumer sees of a getResponse call that ran to outcome o
ConsumerSettle(o) ==
  /\ _pendingTokens' = o.pending
  /\ respStack' = o.stack
  /\ awaited' = NullToken
  /\ IF o.pc = "await"
     THEN /\ respPc' = "await"
          /\ _tokenResolver' = TRUE
          /\ UNCHANGED replies
     ELSE /\ respPc' = "none"
          /\ UNCHANGED _tokenResolver
          /\ replies' = Append(replies, IF o.pc = "done" THEN o.v ELSE Threw)
  /\ UNCHANGED <<_readBuffer, _remainingBulkStringBytes, parserFault, fed,
                 clientVars, socketVars, inbound, sent, streamOpen>>

CallGetResponse ==
  /\ respPc = "none"
  /\ ConsumerSettle(Call(<<>>, _pendingTokens, _tokenResolver))

ResumeGetResponse ==
  /\ respPc = "ready"
  /\ ConsumerSettle(Dispatch(awaited, respStack, _pendingTokens,
                             _tokenResolver))

NextDec == Feed \/ CallGetResponse \/ ResumeGetResponse

SpecDec == InitDec /\ [][NextDec]_vars

---------------------------------------------------------------------------
(* Array replies: the server sends one reply, given as a value tree, and   *)
(* after it the reply +A.  The stream reaches _write in chunks that end at *)
(* a line end, so that the tokens arrive one or several at a time while    *)
(* the consumer's getResponse is suspended anywhere inside the array.      *)

NullBulk == [t |-> "nullbulk"]
NullArr  == [t |-> "nullarr"]

RECURSIVE Encode(_)
\* the RESP bytes of a value tree
Encode(w) ==
  CASE w.t = "num"      -> Line(<<":">> \o ToDecimal(w.v.n))
    [] w.t = "str"      -> Line(<<"+">> \o w.v)
    [] w.t = "err"      -> Line(<<"-">> \o w.v)
    [] w.t = "bulk"     -> Line(<<"$">> \o ToDecimal(Len(w.v))) \o Line(w.v)
    [] w.t = "nullbulk" -> Line(<<"$", "-", "1">>)
    [] w.t = "nullarr"  -> Line(<<"*", "-", "1">>)
    [] w.t = "arr"      ->
         Line(<<"*">> \o ToDecimal(Len(w.v)))
           \o Concat([i \in 1..Len(w.v) |-> Encode(w.v[i])])

RECURSIVE Meaning(_)
\* the reply a value tree stands for, bulk strings read as text
Meaning(w) ==
  CASE w.t \in {"nullbulk", "nullarr"} -> Null
    [] w.t = "bulk" -> JsString(toString(w.v))
    [] w.t = "arr"  -> JsArray([i \in 1..Len(w.v) |-> Meaning(w.v[i])])
    [] OTHER        -> w

\* arrays of at most two elements taken from els
ArraysOver(els) ==
  {JsArray(<<>>)} \cup {JsArray(<<a>>) : a \in els}
    \cup {JsArray(<<a, b>>) : a \in els, b \in els}

Leaves ==
  {JsNumber(Num(1)), JsString(<<"s">>), Bulk(<<"v">>), Bulk(<<>>),
   NullBulk, NullArr, JsError(<<"E">>)}

InnerArrays ==
  {JsArray(<<>>), JsArray(<<JsNumber(Num(1))>>),
   JsArray(<<NullBulk, Bulk(<<"v">>)>>),
   JsArray(<<JsArray(<<JsNumber(Num(1))>>)>>)}

ArrayTrees == ArraysOver(Leaves \cup InnerArrays)

\* the reply sent after the array
Sentinel == JsString(<<"A">>)

\* the positions of bytes right after which a line ends
LineEnds(bytes) ==
  {n \in 2..Len(bytes) : bytes[n - 1] = "CR" /\ bytes[n] = "LF"}

InitArr ==
  /\ InitParser
  /\ InitIdleClient
  /\ respPc = "none" /\ respStack = <<>> /\ awaited = NullToken
  /\ \E w \in ArrayTrees :
       sent = <<w, Sentinel>> /\ inbound = Encode(w) \o Encode(Sentinel)
  /\ streamOpen = TRUE
  /\ replies = <<>>

FeedLines ==
  /\ ~parserFault
  /\ fed < MaxChunks
  /\ \E n \in LineEnds(inbound) :
       /\ _write(SubSeq(inbound, 1, n))
       /\ inbound' = SubSeq(inbound, n + 1, Len(inbound))
  /\ UNCHANGED <<clientVars, socketVars, sent, streamOpen, replies>>

NextArr == FeedLines \/ CallGetResponse \/ ResumeGetResponse

SpecArr == InitArr /\ [][NextArr]_vars

---------------------------------------------------------------------------
(* SpecTwo: the decoder with a second caller.  While the consumer's        *)
(* getResponse is suspended on its token, another caller (a wrapper of the *)
(* queue-less client of part_002) calls getResponse as well.  Chunks end at *)
(* line ends.                                                              *)

MaxRefused == 1

AlreadyWaiting == "already waiting for token"

\* a getResponse call made while another one awaits its token.  When
\* _getNextToken throws, the caller gets the exception; otherwise the call
\* takes the consumer's place
SecondGetResponse ==
  /\ respPc = "await"
  /\ Len(thrown) < MaxRefused
  /\ LET o == Call(<<>>, _pendingTokens, _tokenResolver) IN
       IF o.pc = "threw"
       THEN /\ thrown' = Append(thrown, [msg |-> AlreadyWaiting,
                                         at  |-> Len(replies)])
            /\ UNCHANGED <<parserVars, respVars, _commandQueue, _running,
                           inflight, submitted, completion, socketVars,
                           inbound, sent, streamOpen, replies>>
       ELSE ConsumerSettle(o)

NextTwo ==
  FeedLines \/ CallGetResponse \/ ResumeGetResponse \/ SecondGetResponse

SpecTwo == InitDec /\ [][NextTwo]_vars

---------------------------------------------------------------------------
(* SpecBulk: one bulk string reply followed by the sentinel +A.  The       *)
(* header line arrives whole in the first chunk; from there on the bytes   *)
(* are cut into chunks anywhere, inside the payload and inside its CRLF.   *)

BulkPayloads ==
  { <<"v">>, <<"a", "b">>, <<"CR", "LF">>, <<"LF", "CR">>,
    <<"a", "CR", "LF", "b">> }

\* the number of bytes up to and including the first CRLF
HeaderEnd(bytes) ==
  CHOOSE n \in LineEnds(bytes) : \A m \in LineEnds(bytes) : n <= m

InitBulk ==
  /\ InitParser
  /\ InitIdleClient
  /\ respPc = "none" /\ respStack = <<>> /\ awaited = NullToken
  /\ \E payload \in BulkPayloads :
       /\ sent = <<Bulk(payload), Sentinel>>
       /\ inbound = Encode(Bulk(payload)) \o Encode(Sentinel)
  /\ streamOpen = TRUE
  /\ replies = <<>>

FeedBulk ==
  /\ ~parserFault
  /\ fed < MaxChunks
  /\ \E n \in 1..Len(inbound) :
       /\ fed = 0 => n >= HeaderEnd(inbound)
       /\ _write(SubSeq(inbound, 1, n))
       /\ inbound' = SubSeq(inbound, n + 1, Len(inbound))
  /\ UNCHANGED <<clientVars, socketVars, sent, streamOpen, replies>>

NextBulk == FeedBulk \/ CallGetResponse \/ ResumeGetResponse

SpecBulk == InitBulk /\ [][NextBulk]_vars

\* SpecKind: the same, with payloads that begin with a RESP type character
KindPayloads ==
  { <<"+", "A">>, <<"-", "E">>, <<":", "1">>, <<"*", "1">>, <<"$", "1">>,
    <<"+", "A", "CR", "LF", "b">> }

InitKind ==
  /\ InitParser
  /\ InitIdleClient
  /\ respPc = "none" /\ respStack = <<>> /\ awaited = NullToken
  /\ \E payload \in KindPayloads :
       /\ sent = <<Bulk(payload), Sentinel>>
       /\ inbound = Encode(Bulk(payload)) \o Encode(Sentinel)
  /\ streamOpen = TRUE
  /\ replies = <<>>

SpecKind == InitKind /\ [][NextBulk]_vars

---------------------------------------------------------------------------
(* SpecMB: a MultiBuffer on its own.  Buffers are added and bytes shifted  *)
(* off in any order; shift is asked for 0 bytes, for part of a buffer, for *)
(* bytes spanning buffers and for more than is held; indexOf is asked for  *)
(* CR LF.  replies holds the last call and its result.                     *)

MaxOps == 4

MbChunks ==
  { <<>>, <<"a">>, <<"CR">>, <<"LF">>, <<"a", "CR">>, <<"LF", "a">>,
    <<"CR", "LF">>, <<"a", "b", "c">> }

MbResult(op, n, threw, out, idx) ==
  [op |-> op, n |-> n, threw |-> threw, out |-> out, idx |-> idx]

InitMB ==
  /\ InitParser
  /\ InitIdleClient
  /\ respPc = "none" /\ respStack = <<>> /\ awaited = NullToken
  /\ inbound = <<>> /\ sent = <<>> /\ streamOpen = TRUE
  /\ replies = <<>>

MbUnchanged ==
  UNCHANGED <<_remainingBulkStringBytes, _tokenResolver, _pendingTokens,
              parserFault, respVars, clientVars, socketVars, inbound, sent,
              streamOpen>>

MbAdd ==
  /\ fed < MaxOps
  /\ \E chunk \in MbChunks :
       /\ _readBuffer' = add(_readBuffer, chunk)
       /\ replies' = <<MbResult("add", Len(chunk), FALSE, <<>>, -1)>>
  /\ fed' = fed + 1
  /\ MbUnchanged

MbShift ==
  /\ fed < MaxOps
  /\ \E numBytes \in 0..(_readBuffer.length + 1) :
       LET r == shift(_readBuffer, numBytes) IN
       /\ _readBuffer' = r.mb
       /\ replies' = <<MbResult("shift", numBytes, r.threw, r.out, -1)>>
  /\ fed' = fed + 1
  /\ MbUnchanged

MbIndexOf ==
  /\ fed < MaxOps
  /\ replies' = <<MbResult("indexOf", 0, FALSE, <<>>, indexOf(_readBuffer))>>
  /\ fed' = fed + 1
  /\ UNCHANGED _readBuffer
  /\ MbUnchanged

NextMB == MbAdd \/ MbShift \/ MbIndexOf

SpecMB == InitMB /\ [][NextMB]_vars

---------------------------------------------------------------------------
(* The command catalog: what each wrapper hands to _serialize_command      *)

InlineThreshold == 1000

StrArg(text) == [k |-> "str", b |-> text]
BufArg(buf)  == [k |-> "buf", b |-> buf]
\* a number; b is its decimal text, what join and a template string make of it
NumArg(n)    == [k |-> "num", b |-> ToDecimal(n)]

\* .length of a string or of a Buffer
JsLength(arg) == Len(arg.b)

Queued(inline, cmd) == [inline |-> inline, cmd |-> cmd]

get(key) ==
  Queued(TRUE, <<StrArg(<<"G", "E", "T">>), key>>)

\* options=null
NoOptions == [null |-> TRUE]

\* 'name' in options
In(name, options) == name \in DOMAIN options

\* options.name read as a condition
Truthy(name, options) == In(name, options) /\ options[name]

set(key, val, options) ==
  LET cmd  == <<StrArg(<<"S", "E", "T">>), key, val>>
      cmd2 == IF options # NoOptions /\ (In("ex", options) \/ In("px", options))
              THEN Append(cmd, NumArg(IF In("ex", options) THEN options.ex
                                      ELSE options.px))
              ELSE cmd
      cmd3 == IF options # NoOptions
                   /\ (Truthy("nx", options) \/ Truthy("xx", options))
              THEN Append(cmd2, StrArg(IF Truthy("nx", options)
                                       THEN <<"N", "X">> ELSE <<"X", "X">>))
              ELSE cmd2
  IN  Queued(JsLength(val) < InlineThreshold, cmd3)

\* String(value)
String(value) ==
  IF value.k = "buf" THEN StrArg(toString(value.b)) ELSE value

hset(key, field, value) ==
  Queued(JsLength(value) < InlineThreshold,
         <<StrArg(<<"H", "S", "E", "T">>), key, field, String(value)>>)

hsetnx(key, field, value) ==
  Queued(JsLength(value) < InlineThreshold,
         <<StrArg(<<"H", "S", "E", "T", "N", "X">>), key, field, value>>)

\* xadd(key, {field: value}) with no options
xadd(key, field, value) ==
  Queued(FALSE, <<StrArg(<<"X", "A", "D", "D">>), key, StrArg(<<"*">>),
                  field, value>>)

\* a call that throws before it reaches _serialize_command
Throws(msg) == [throws |-> msg]
IsQueued(q) == "cmd" \in DOMAIN q

\* an argument left out of a call
Undefined == [k |-> "undefined", b |-> <<>>]

LowerCase == <<"a", "b", "c", "d", "e", "f", "g", "h", "i", "j", "k", "l", "m",
               "n", "o", "p", "q", "r", "s", "t", "u", "v", "w", "x", "y", "z">>
UpperCase == <<"A", "B", "C", "D", "E", "F", "G", "H", "I", "J", "K", "L", "M",
               "N", "O", "P", "Q", "R", "S", "T", "U", "V", "W", "X", "Y", "Z">>

\* String.prototype.toUpperCase
toUpperCase(text) ==
  [i \in 1..Len(text) |->
     IF \E j \in 1..26 : LowerCase[j] = text[i]
     THEN UpperCase[CHOOSE j \in 1..26 : LowerCase[j] = text[i]]
     ELSE text[i]]

\* xgroup(type, key, groupname, id_or_consumername)
xgroup(type, key, groupname, id_or_consumername) ==
  LET cmd == <<StrArg(<<"X", "G", "R", "O", "U", "P">>), StrArg(type), key,
               groupname>>
  IN  IF type # <<"d", "e", "s", "t", "r", "o", "y">>
      THEN IF id_or_consumername = Undefined
           THEN IF type = <<"d", "e", "l", "c", "o", "n", "s", "u", "m", "e",
                            "r">>
                THEN Throws("A consumer name must be provided")
                ELSE Throws("The id of the last consumed entry must be specified")
           ELSE Queued(TRUE, Append(cmd, String(id_or_consumername)))
      ELSE Queued(TRUE, cmd)

\* an xinfo without the group name check
xinfoUnchecked(type, key, group_name) ==
  Queued(TRUE, <<StrArg(<<"X", "I", "N", "F", "O">>),
                 StrArg(toUpperCase(type)), key>>
               \o (IF group_name = Undefined THEN <<>> ELSE <<group_name>>))

\* xinfo(type, key, group_name)
xinfo(type, key, group_name) ==
  LET cmd == <<StrArg(<<"X", "I", "N", "F", "O">>), StrArg(toUpperCase(type)),
               key>>
  IN  IF type = <<"c", "o", "n", "s", "u", "m", "e", "r", "s">>
      THEN IF group_name = Undefined \/ group_name.b = <<>>
           THEN Throws("Group name is required")
           ELSE Queued(TRUE, Append(cmd, group_name))
      ELSE Queued(TRUE, cmd)

---------------------------------------------------------------------------
(* RedisClient: writing a command                                          *)

WriteEvent(id, data) ==
  [op |-> "write", id |-> id, data |-> data,
   lost |-> socketEnded \/ ~streamOpen]
CorkEvent(id)   == [op |-> "cork", id |-> id, data |-> <<>>, lost |-> FALSE]
UncorkEvent(id) == [op |-> "uncork", id |-> id, data |-> <<>>, lost |-> FALSE]
EndEvent        == [op |-> "end", id |-> 0, data |-> <<>>, lost |-> FALSE]

RECURSIVE Join(_)
\* cmd.join(' ')
Join(cmd) ==
  IF cmd = <<>> THEN <<>>
  ELSE IF Len(cmd) = 1 THEN Head(cmd).b
  ELSE Head(cmd).b \o <<" ">> \o Join(Tail(cmd))

RECURSIVE WriteElementsNoCrlf(_, _)
\* elements written without the CRLF that ends each of them
WriteElementsNoCrlf(id, els) ==
  IF els = <<>> THEN <<>>
  ELSE <<WriteEvent(id, <<"$">> \o ToDecimal(Len(Head(els).b)) \o CRLF),
         WriteEvent(id, Head(els).b)>> \o WriteElementsNoCrlf(id, Tail(els))

RECURSIVE WriteElements(_, _)
\* the for loop of _write_to_socket over the elements of the command: a
\* string or Buffer goes out as $len, data, CRLF; a number as :n CRLF; an
\* element of another type writes nothing
WriteElements(id, els) ==
  IF els = <<>> THEN <<>>
  ELSE (IF Head(els).k \in {"str", "buf"}
        THEN <<WriteEvent(id, <<"$">> \o ToDecimal(Len(Head(els).b)) \o CRLF),
               WriteEvent(id, Head(els).b),
               WriteEvent(id, CRLF)>>
        ELSE IF Head(els).k = "num"
        THEN <<WriteEvent(id, <<":">> \o Head(els).b \o CRLF)>>
        ELSE <<>>) \o WriteElements(id, Tail(els))

_write_to_socket(id, cmd) ==
  <<WriteEvent(id, <<"*">> \o ToDecimal(Len(cmd)) \o CRLF)>>
    \o WriteElements(id, cmd)

\* a pump that corks the socket and never uncorks it
WriteCommandLeftCorked(id, q) ==
  IF q.inline THEN <<WriteEvent(id, Join(q.cmd) \o CRLF)>>
  ELSE <<CorkEvent(id)>> \o _write_to_socket(id, q.cmd)

\* lines 130-138: the calls made on the socket for one queued command
WriteCommand(id, q) ==
  IF q.inline THEN <<WriteEvent(id, Join(q.cmd) \o CRLF)>>
  ELSE <<CorkEvent(id)>> \o _write_to_socket(id, q.cmd) \o <<UncorkEvent(id)>>

---------------------------------------------------------------------------
(* RedisClient: the command queue and its pump                             *)

Pending     == [st |-> "pending", v |-> Null]
Resolved(v) == [st |-> "resolved", v |-> v]
Rejected(e) == [st |-> "rejected", v |-> e]

\* a pump without the `instanceof Error` test: every reply resolves
SettleWithoutErrorTest(res) == Resolved(res)

\* lines 141-145
Settle(res) == IF res.t = "err" THEN Rejected(res) ELSE Resolved(res)

\* a loop that clears _running whenever it suspends at its await
PumpLoopClearingFlag(queue, subs, pending) ==
  IF queue = <<>>
  THEN /\ _running' = FALSE
       /\ inflight' = 0
       /\ _commandQueue' = <<>>
       /\ respPc' = "none"
       /\ respStack' = <<>>
       /\ awaited' = NullToken
       /\ _pendingTokens' = pending
       /\ UNCHANGED <<_tokenResolver, socketWrites>>
  ELSE /\ _running' = FALSE
       /\ inflight' = Head(queue)
       /\ _commandQueue' = Tail(queue)
       /\ socketWrites' =
            socketWrites \o WriteCommand(Head(queue), subs[Head(queue)])
       /\ respStack' = <<>>
       /\ IF pending # <<>>
          THEN /\ respPc' = "ready"
               /\ awaited' = Head(pending)
               /\ _pendingTokens' = Tail(pending)
               /\ UNCHANGED _tokenResolver
          ELSE /\ respPc' = IF _tokenResolver THEN "threw" ELSE "await"
               /\ awaited' = NullToken
               /\ _pendingTokens' = pending
               /\ _tokenResolver' = TRUE

\* a loop that reads the head of the queue and leaves it there
PumpLoopNotShifting(queue, subs, pending) ==
  IF queue = <<>>
  THEN /\ _running' = FALSE
       /\ inflight' = 0
       /\ _commandQueue' = <<>>
       /\ respPc' = "none"
       /\ respStack' = <<>>
       /\ awaited' = NullToken
       /\ _pendingTokens' = pending
       /\ UNCHANGED <<_tokenResolver, socketWrites>>
  ELSE /\ _running' = TRUE
       /\ inflight' = Head(queue)
       /\ _commandQueue' = queue
       /\ socketWrites' =
            socketWrites \o WriteCommand(Head(queue), subs[Head(queue)])
       /\ respStack' = <<>>
       /\ IF pending # <<>>
          THEN /\ respPc' = "ready"
               /\ awaited' = Head(pending)
               /\ _pendingTokens' = Tail(pending)
               /\ UNCHANGED _tokenResolver
          ELSE /\ respPc' = IF _tokenResolver THEN "threw" ELSE "await"
               /\ awaited' = NullToken
               /\ _pendingTokens' = pending
               /\ _tokenResolver' = TRUE

\* The while loop of _run_command_queue from its test (line 126) to the
\* await of line 140, or to its exit (line 147).  queue, subs and pending
\* are the command queue, the submitted commands and the token FIFO as the
\* caller leaves them.
PumpLoop(queue, subs, pending) ==
  IF queue = <<>>
  THEN /\ _running' = FALSE
       /\ inflight' = 0
       /\ _commandQueue' = <<>>
       /\ respPc' = "none"
       /\ respStack' = <<>>
       /\ awaited' = NullToken
       /\ _pendingTokens' = pending
       /\ UNCHANGED <<_tokenResolver, socketWrites>>
  ELSE /\ _running' = TRUE
       /\ inflight' = Head(queue)
       /\ _commandQueue' = Tail(queue)
       /\ socketWrites' =
            socketWrites \o WriteCommand(Head(queue), subs[Head(queue)])
       /\ respStack' = <<>>
       /\ IF pending # <<>>
          THEN /\ respPc' = "ready"
               /\ awaited' = Head(pending)
               /\ _pendingTokens' = Tail(pending)
               /\ UNCHANGED _tokenResolver
          ELSE /\ respPc' = IF _tokenResolver THEN "threw" ELSE "await"
               /\ awaited' = NullToken
               /\ _pendingTokens' = pending
               /\ _tokenResolver' = TRUE

\* a client that writes a command at once when the pump is busy, instead of
\* queueing it
SerializeWritingAtOnce(q) ==
  LET id == Len(submitted) + 1 IN
  /\ submitted' = Append(submitted, q)
  /\ completion' = Append(completion, Pending)
  /\ IF _running
     THEN /\ socketWrites' = socketWrites \o WriteCommand(id, q)
          /\ UNCHANGED <<_commandQueue, _running, inflight, respVars,
                         _tokenResolver, _pendingTokens>>
     ELSE PumpLoop(Append(_commandQueue, id), Append(submitted, q),
                   _pendingTokens)
  /\ UNCHANGED <<_readBuffer, _remainingBulkStringBytes, parserFault, fed,
                 thrown, socketEnded, piped, connection, inbound, sent,
                 streamOpen,
                 replies>>

\* a _run_command_queue without the test of _running: every submission
\* enters the loop
SerializeWithoutGuard(q) ==
  /\ submitted' = Append(submitted, q)
  /\ completion' = Append(completion, Pending)
  /\ PumpLoop(Append(_commandQueue, Len(submitted) + 1), Append(submitted, q),
              _pendingTokens)
  /\ UNCHANGED <<_readBuffer, _remainingBulkStringBytes, parserFault, fed,
                 thrown, socketEnded, piped, connection, inbound, sent,
                 streamOpen,
                 replies>>

\* a _serialize_command that pushes the command and does not call
\* _run_command_queue
SerializeWithoutStart(q) ==
  /\ submitted' = Append(submitted, q)
  /\ completion' = Append(completion, Pending)
  /\ _commandQueue' = Append(_commandQueue, Len(submitted) + 1)
  /\ UNCHANGED <<_running, inflight, socketWrites, respVars, _tokenResolver,
                 _pendingTokens>>
  /\ UNCHANGED <<_readBuffer, _remainingBulkStringBytes, parserFault, fed,
                 thrown, socketEnded, piped, connection, inbound, sent,
                 streamOpen,
                 replies>>

\* a client that throws away the tokens left in the FIFO when it starts the
\* pump
SerializeDiscardingStale(q) ==
  LET id == Len(submitted) + 1 IN
  /\ submitted' = Append(submitted, q)
  /\ completion' = Append(completion, Pending)
  /\ IF _running
     THEN /\ _commandQueue' = Append(_commandQueue, id)
          /\ UNCHANGED <<_running, inflight, socketWrites, respVars,
                         _tokenResolver, _pendingTokens>>
     ELSE PumpLoop(Append(_commandQueue, id), Append(submitted, q), <<>>)
  /\ UNCHANGED <<_readBuffer, _remainingBulkStringBytes, parserFault, fed,
                 thrown, socketEnded, piped, connection, inbound, sent,
                 streamOpen, replies>>

\* _serialize_command(inline, ...cmd): push, then _run_command_queue()
_serialize_command(q) ==
  LET id == Len(submitted) + 1 IN
  /\ submitted' = Append(submitted, q)
  /\ completion' = Append(completion, Pending)
  /\ IF _running
     THEN /\ _commandQueue' = Append(_commandQueue, id)
          /\ UNCHANGED <<_running, inflight, socketWrites, respVars,
                         _tokenResolver, _pendingTokens>>
     ELSE PumpLoop(Append(_commandQueue, id), Append(submitted, q),
                   _pendingTokens)
  /\ UNCHANGED <<_readBuffer, _remainingBulkStringBytes, parserFault, fed,
                 thrown, socketEnded, piped, connection, inbound, sent,
                 streamOpen,
                 replies>>

\* _run_command_queue resumes after `await this._parser.getResponse()`
\* (line 140) with the token its getResponse awaited
_run_command_queue ==
  LET o == Dispatch(awaited, respStack, _pendingTokens, _tokenResolver) IN
  /\ _running /\ respPc = "ready"
  /\ IF o.pc = "done"
     THEN /\ completion' = [completion EXCEPT ![inflight] = Settle(o.v)]
          /\ PumpLoop(_commandQueue, submitted, o.pending)
     ELSE /\ respPc' = o.pc
          /\ respStack' = o.stack
          /\ awaited' = NullToken
          /\ _pendingTokens' = o.pending
          /\ _tokenResolver' = (_tokenResolver \/ o.pc = "await")
          /\ UNCHANGED <<_commandQueue, _running, inflight, completion,
                         socketWrites>>
  /\ UNCHANGED <<_readBuffer, _remainingBulkStringBytes, parserFault, fed,
                 submitted, thrown, socketEnded, piped, connection, inbound,
                 sent, streamOpen, replies>>

\* close()
close ==
  /\ ~socketEnded
  /\ piped' = FALSE
  /\ socketEnded' = TRUE
  /\ socketWrites' = Append(socketWrites, EndEvent)
  /\ dispose
  /\ UNCHANGED <<respVars, clientVars, connection, inbound, sent, streamOpen,
                 replies>>

---------------------------------------------------------------------------
(* The connection: the application submits commands, the server answers    *)
(* the commands it has received, one reply each, and the socket hands the  *)
(* reply bytes to the parser in chunks of any sizes.                       *)

MaxCmds    == 2
MaxDeliver == 3

K == StrArg(<<"k">>)
F == StrArg(<<"f">>)
ShortText  == <<"v">>
SpacedText == <<"a", " ", "b">>
LongText   == [i \in 1..InlineThreshold |-> "x"]

EngineCalls == {get(K), xadd(K, F, StrArg(ShortText))}

EngineFrames == {"ok", "err", "bulk", "emptybulk", "arrerr", "unknown"}

\* ids of the commands whose bytes reached the server
Received ==
  {socketWrites[i].id : i \in {j \in DOMAIN socketWrites :
      socketWrites[j].op = "write" /\ ~socketWrites[j].lost}}

Init ==
  /\ InitParser
  /\ InitIdleClient
  /\ respPc = "none" /\ respStack = <<>> /\ awaited = NullToken
  /\ inbound = <<>> /\ sent = <<>> /\ streamOpen = TRUE
  /\ replies = <<>>

Submit(calls) ==
  /\ Len(submitted) + Len(thrown) < MaxCmds
  /\ \E q \in {c \in calls : IsQueued(c)} : _serialize_command(q)

\* a catalog call whose argument check throws: the exception reaches the
\* caller, nothing else happens
CatalogThrow(calls) ==
  /\ Len(submitted) + Len(thrown) < MaxCmds
  /\ \E q \in {c \in calls : ~IsQueued(c)} :
       thrown' = Append(thrown, [msg |-> q.throws, at |-> Len(submitted)])
  /\ UNCHANGED <<parserVars, respVars, _commandQueue, _running, inflight,
                 submitted, completion, socketVars, inbound, sent, streamOpen,
                 replies>>

ServerReply(frames) ==
  /\ streamOpen
  /\ Len(sent) < Cardinality(Received)
  /\ \E f \in frames :
       /\ sent' = Append(sent, f)
       /\ inbound' = inbound \o Frames[f].bytes
  /\ UNCHANGED <<parserVars, respVars, clientVars, socketVars, streamOpen,
                 replies>>

\* the socket's 'data' event, piped into the parser
Deliver ==
  /\ piped /\ streamOpen /\ ~parserFault
  /\ fed < MaxDeliver
  /\ \E n \in 1..Len(inbound) :
       /\ _write(SubSeq(inbound, 1, n))
       /\ inbound' = SubSeq(inbound, n + 1, Len(inbound))
  /\ UNCHANGED <<clientVars, socketVars, sent, streamOpen, replies>>

\* the server closes the stream; bytes not yet delivered never arrive.  No
\* listener of the client reacts (the constructor registers none).
ServerClose ==
  /\ streamOpen
  /\ streamOpen' = FALSE
  /\ inbound' = <<>>
  /\ UNCHANGED <<parserVars, respVars, clientVars, socketVars, sent,
                 replies>>

Next ==
  \/ Submit(EngineCalls)
  \/ _run_command_queue
  \/ ServerReply(EngineFrames)
  \/ Deliver
  \/ ServerClose
  \/ close

Spec == Init /\ [][Next]_vars

---------------------------------------------------------------------------
(* The catalog on a connection whose server answers every command with     *)
(* +A: which wrappers ask for the inline form, and for which arguments.    *)

G == StrArg(<<"g">>)
Consumers   == <<"c", "o", "n", "s", "u", "m", "e", "r", "s">>
Create      == <<"c", "r", "e", "a", "t", "e">>
DelConsumer == <<"d", "e", "l", "c", "o", "n", "s", "u", "m", "e", "r">>
Destroy     == <<"d", "e", "s", "t", "r", "o", "y">>

CatalogCalls ==
  {get(K),
   set(K, StrArg(ShortText), NoOptions), set(K, StrArg(SpacedText), NoOptions),
   set(K, BufArg(ShortText), NoOptions), set(K, StrArg(LongText), NoOptions),
   hset(K, F, StrArg(SpacedText)), hset(K, F, BufArg(ShortText)),
   hsetnx(K, F, StrArg(SpacedText)), hsetnx(K, F, BufArg(ShortText)),
   xadd(K, F, StrArg(ShortText)),
   xinfo(Consumers, K, Undefined), xinfo(Consumers, K, StrArg(<<>>)),
   xinfo(Consumers, K, G), xinfo(<<"s", "t", "r", "e", "a", "m">>, K, Undefined),
   xgroup(Create, K, G, Undefined), xgroup(DelConsumer, K, G, Undefined),
   xgroup(Create, K, G, StrArg(<<"$">>)), xgroup(Destroy, K, G, Undefined)}

NextCat ==
  \/ Submit(CatalogCalls)
  \/ CatalogThrow(CatalogCalls)
  \/ _run_command_queue
  \/ ServerReply({"ok"})
  \/ Deliver

SpecCat == Init /\ [][NextCat]_vars

---------------------------------------------------------------------------
(* The values handed to the submitter: the server answers with frames of   *)
(* every scalar kind, among them an error with a code token and a bulk     *)
(* string whose payload is not text.                                       *)

ValueFrames == {"ok", "int", "err", "errcode", "bulk", "binbulk", "nullbulk"}

NextVal ==
  \/ Submit(EngineCalls)
  \/ _run_command_queue
  \/ ServerReply(ValueFrames)
  \/ Deliver

SpecVal == Init /\ [][NextVal]_vars

---------------------------------------------------------------------------
(* Backpressure: the socket's send buffer fills up and drains again.  From *)
(* the moment it is full every write() returns false, until the socket     *)
(* emits 'drain'.  Both moments are entered in socketWrites, between the   *)
(* calls the client makes.                                                 *)

MaxCongest == 1

FullEvent  == [op |-> "full", id |-> 0, data |-> <<>>, lost |-> FALSE]
DrainEvent == [op |-> "drain", id |-> 0, data |-> <<>>, lost |-> FALSE]

\* the positions of the entries with the given op
Positions(op) == {i \in DOMAIN socketWrites : socketWrites[i].op = op}

\* write() returns false at present
Congested ==
  \E m \in Positions("full") : \A d \in Positions("drain") : d < m

Congest ==
  /\ ~Congested
  /\ ~socketEnded
  /\ Cardinality(Positions("full")) < MaxCongest
  /\ socketWrites' = Append(socketWrites, FullEvent)
  /\ UNCHANGED <<parserVars, respVars, clientVars, socketEnded, piped,
                 connection,
                 inbound, sent, streamOpen, replies>>

SocketDrain ==
  /\ Congested
  /\ socketWrites' = Append(socketWrites, DrainEvent)
  /\ UNCHANGED <<parserVars, respVars, clientVars, socketEnded, piped,
                 connection,
                 inbound, sent, streamOpen, replies>>

NextFlow ==
  \/ Submit(EngineCalls)
  \/ _run_command_queue
  \/ ServerReply({"ok"})
  \/ Deliver
  \/ Congest
  \/ SocketDrain

SpecFlow == Init /\ [][NextFlow]_vars

---------------------------------------------------------------------------
(* The array form on the wire: commands that are not written inline, among *)
(* them SET with options; the server answers every command with +A.        *)

Seconds == 5
Millis  == 10

EncodedCalls ==
  {xadd(K, F, StrArg(ShortText)),
   set(K, StrArg(LongText), NoOptions),
   set(K, BufArg(LongText), [nx |-> TRUE]),
   set(K, StrArg(LongText), [ex |-> Seconds]),
   set(K, StrArg(LongText), [px |-> Millis, xx |-> TRUE])}

NextEnc ==
  \/ Submit(EncodedCalls)
  \/ _run_command_queue
  \/ ServerReply({"ok"})
  \/ Deliver

SpecEnc == Init /\ [][NextEnc]_vars

---------------------------------------------------------------------------
(* Unsolicited replies: besides answering the commands it received, the    *)
(* server sends a frame nobody asked for while the client is idle.  Chunks *)
(* end at line ends.                                                       *)

MaxPush == 1

PushFrames   == {"int"}
AnswerFrames == {"ok", "bulk"}

\* the positions in sent of the frames that answer no command
Pushed == {i \in DOMAIN sent : sent[i] \in PushFrames}

ServerAnswer ==
  /\ streamOpen
  /\ Len(sent) - Cardinality(Pushed) < Cardinality(Received)
  /\ \E f \in AnswerFrames :
       /\ sent' = Append(sent, f)
       /\ inbound' = inbound \o Frames[f].bytes
  /\ UNCHANGED <<parserVars, respVars, clientVars, socketVars, streamOpen,
                 replies>>

ServerPush ==
  /\ streamOpen
  /\ ~_running
  /\ Cardinality(Pushed) < MaxPush
  /\ \E f \in PushFrames :
       /\ sent' = Append(sent, f)
       /\ inbound' = inbound \o Frames[f].bytes
  /\ UNCHANGED <<parserVars, respVars, clientVars, socketVars, streamOpen,
                 replies>>

DeliverLines ==
  /\ piped /\ streamOpen /\ ~parserFault
  /\ fed < MaxDeliver
  /\ \E n \in LineEnds(inbound) :
       /\ _write(SubSeq(inbound, 1, n))
       /\ inbound' = SubSeq(inbound, n + 1, Len(inbound))
  /\ UNCHANGED <<clientVars, socketVars, sent, streamOpen, replies>>

NextPush ==
  \/ Submit(EngineCalls)
  \/ _run_command_queue
  \/ ServerAnswer
  \/ ServerPush
  \/ DeliverLines

SpecPush == Init /\ [][NextPush]_vars

---------------------------------------------------------------------------
(* connect(): the promise, the two listeners it registers on the socket,   *)
(* and the client it creates.  The socket emits 'connect' and 'error' in   *)
(* any order; once a client exists it is used as in Spec.                  *)

MaxEvents == 3

\* lines 27-28: both listeners registered, the promise pending
Connecting ==
  [listeners |-> {"connect", "error"}, promise |-> "pending", settled |-> 0,
   clients |-> 0, emitted |-> <<>>]

\* what resolve or reject does to the state of a promise
SettlePromise(state, to) == IF state = "pending" THEN to ELSE state

\* an onceConnect that leaves the 'error' listener registered
onceConnectKeepingError(c) ==
  [c EXCEPT !.listeners = @ \ {"connect"},
            !.clients   = @ + 1,
            !.promise   = SettlePromise(@, "resolved"),
            !.settled   = @ + 1]

\* onceConnect, a once() listener: it is removed as it is called
onceConnect(c) ==
  [c EXCEPT !.listeners = @ \ {"connect", "error"},
            !.clients   = @ + 1,
            !.promise   = SettlePromise(@, "resolved"),
            !.settled   = @ + 1]

\* onceError(err)
onceError(c) ==
  [c EXCEPT !.listeners = @ \ {"error", "connect"},
            !.promise   = SettlePromise(@, "rejected"),
            !.settled   = @ + 1]

\* socket.emit(event): the listener registered for the event, if any, runs
Emit(event) ==
  LET c == [connection EXCEPT !.emitted = Append(@, event)] IN
  IF event \in connection.listeners
  THEN IF event = "connect" THEN onceConnect(c) ELSE onceError(c)
  ELSE c

InitConn ==
  /\ InitParser
  /\ _commandQueue = <<>> /\ _running = FALSE /\ inflight = 0
  /\ submitted = <<>> /\ completion = <<>> /\ thrown = <<>>
  /\ socketWrites = <<>> /\ socketEnded = FALSE /\ piped = TRUE
  /\ connection = Connecting
  /\ respPc = "none" /\ respStack = <<>> /\ awaited = NullToken
  /\ inbound = <<>> /\ sent = <<>> /\ streamOpen = TRUE
  /\ replies = <<>>

SocketConnect ==
  /\ Len(connection.emitted) < MaxEvents
  /\ connection' = Emit("connect")
  /\ UNCHANGED <<parserVars, respVars, clientVars, socketWrites, socketEnded,
                 piped, inbound, sent, streamOpen, replies>>

\* the socket fails: 'error' is emitted and no more bytes arrive
SocketError ==
  /\ Len(connection.emitted) < MaxEvents
  /\ connection' = Emit("error")
  /\ streamOpen' = FALSE
  /\ inbound' = <<>>
  /\ UNCHANGED <<parserVars, respVars, clientVars, socketWrites, socketEnded,
                 piped, sent, replies>>

\* the application has a client to call
HasClient == connection.clients >= 1

NextConn ==
  \/ SocketConnect
  \/ SocketError
  \/ (HasClient /\ Submit(EngineCalls))
  \/ (HasClient /\ _run_command_queue)
  \/ (HasClient /\ ServerReply({"ok"}))
  \/ (HasClient /\ Deliver)

SpecConn == InitConn /\ [][NextConn]_vars

---------------------------------------------------------------------------
(* Headers with a malformed length: the server answers with bulk and array *)
(* headers whose length is not a number or is negative and not -1.         *)

MalformedLengths == {"badbulk", "negbulk", "badarr", "negarr"}

LengthFrames == MalformedLengths \cup {"ok"}

NextLen ==
  \/ Submit(EngineCalls)
  \/ _run_command_queue
  \/ ServerReply(LengthFrames)
  \/ Deliver

SpecLen == Init /\ [][NextLen]_vars

---------------------------------------------------------------------------
(* Properties of the decoder (checked under SpecDec)                       *)

RECURSIVE Drain(_, _)
\* getResponse called again and again on a token FIFO until a call must
\* wait: the replies obtained
Drain(pending, acc) ==
  LET o == Call(<<>>, pending, FALSE) IN
  IF o.pc = "await" THEN acc
  ELSE Drain(o.pending, Append(acc, IF o.pc = "done" THEN o.v ELSE Threw))

\* the replies the decoder yields when the whole stream is one chunk
WholeReplies(bytes) ==
  Drain(_processReadBuffers(add(EmptyMultiBuffer, bytes), Num(-1)).out, <<>>)

\* the replies before the i-th are those of the frames before the i-th
AlignedBefore(i) ==
  \A j \in 1..(i - 1) : replies[j] = Expected(sent[j])

\* C5: fragmentation independence.  Once the whole stream has been written
\* to the decoder, in chunks of any sizes, and the consumer has taken every
\* reply there is, the replies are those the decoder yields when the same
\* stream is written as a single chunk.
C5_FragmentationIndependence ==
  (inbound = <<>> /\ respPc = "await")
    => replies = WholeReplies(StreamBytes(sent))

\* C6: an error frame that is an element of an array reply stays an element:
\* the reply is the array of the declared length with the error at its
\* position, and the frame after the array is the next reply.
C6_ErrorElementKept ==
  \A i \in 1..Len(replies) :
    (i <= Len(sent) /\ sent[i] = "arrerr" /\ AlignedBefore(i))
      => /\ replies[i] = Expected("arrerr")
         /\ replies[i].t = "arr" /\ Len(replies[i].v) = 2
         /\ (i + 1 <= Len(replies) /\ i + 1 <= Len(sent))
              => replies[i + 1] = Expected(sent[i + 1])

\* C7: null distinction.  $-1 and *-1 decode to null; $0 followed by an
\* empty payload decodes to exactly one reply, the empty string, which is
\* not null, and the frame after it is the next reply.
C7_NullDistinction ==
  \A i \in 1..Len(replies) :
    (i <= Len(sent) /\ AlignedBefore(i))
      => /\ sent[i] \in {"nullbulk", "nullarr"} => replies[i] = Null
         /\ sent[i] = "emptybulk"
              => /\ replies[i] = JsString(<<>>)
                 /\ replies[i] # Null
                 /\ (i + 1 <= Len(replies) /\ i + 1 <= Len(sent))
                      => replies[i + 1] = Expected(sent[i + 1])

---------------------------------------------------------------------------
(* Properties of the command engine (checked under Spec, C10 under SpecCat)*)

\* every frame the server has sent is a well-formed RESP reply
WellFormedSoFar == \A i \in DOMAIN sent : sent[i] # "unknown"

\* the completion a command gets from the reply frame `name`
ExpectedCompletion(name) ==
  IF Expected(name).t = "err" THEN Rejected(Expected(name))
  ELSE Resolved(Expected(name))

\* C1: strict positional FIFO.  As long as the server sends well-formed
\* replies, commands are written to the socket in submission order, and a
\* command that is completed is completed with the reply at its own
\* position: the k-th submitted command with the k-th reply sent.
C1_PositionalFifo ==
  WellFormedSoFar =>
    /\ \A i, j \in DOMAIN socketWrites :
         (i < j /\ socketWrites[i].op # "end" /\ socketWrites[j].op # "end")
           => socketWrites[i].id <= socketWrites[j].id
    /\ \A k \in DOMAIN completion :
         completion[k].st # "pending"
           => (k <= Len(sent) /\ completion[k] = ExpectedCompletion(sent[k]))

\* a driver loop exists that will resume when a token arrives
PumpLive ==
  /\ _running
  /\ respPc \in {"ready", "await"}
  /\ respPc = "await" => _tokenResolver

ConnectionOpen == streamOpen /\ ~socketEnded /\ ~parserFault

\* C2: no queued command is lost.  On a connection that stays open and
\* receives well-formed replies, every submitted command has been written or
\* waits in the queue of a driver loop that will get to it, and when every
\* byte the server sent has been delivered and the pump has nothing left to
\* resume, each command the server has answered (it and all before it) has
\* its completion settled.
C2_NoCommandLost ==
  (ConnectionOpen /\ WellFormedSoFar) =>
    /\ \A k \in DOMAIN submitted :
         \/ k \in Received
         \/ \E i \in DOMAIN _commandQueue : _commandQueue[i] = k
    /\ _commandQueue # <<>> => PumpLive
    /\ (inbound = <<>> /\ respPc # "ready")
         => \A k \in 1..Len(sent) : completion[k].st # "pending"

\* the pump is about to resume with a top-level error line
TopLevelErrorReply ==
  /\ _running /\ respPc = "ready" /\ respStack = <<>>
  /\ awaited.k = "str" /\ awaited.b # <<>> /\ Head(awaited.b) = "-"

\* C3: a server error is not fatal.  When the pump resumes with a top-level
\* error frame, the command in flight is rejected with that error and no
\* other completion changes; the socket and the stream stay as they are;
\* the decoder keeps every byte and token that follows the error line; and
\* the pump goes on: it writes the next queued command and awaits its reply,
\* or, the queue being empty, stops so that the next submission starts it
\* again.
C3_ServerErrorNotFatal ==
  [][(TopLevelErrorReply /\ (inflight' # inflight \/ respPc' # respPc))
       => /\ completion' = [completion EXCEPT
                              ![inflight] = Rejected(JsError(Tail(awaited.b)))]
          /\ respPc' # "threw"
          /\ socketEnded' = socketEnded /\ piped' = piped
          /\ streamOpen' = streamOpen /\ parserFault' = parserFault
          /\ _readBuffer' = _readBuffer
          /\ _remainingBulkStringBytes' = _remainingBulkStringBytes
          /\ IF _commandQueue = <<>>
             THEN /\ ~_running' /\ respPc' = "none"
                  /\ socketWrites' = socketWrites
                  /\ _pendingTokens' = _pendingTokens
             ELSE /\ _running' /\ respPc' \in {"ready", "await"}
                  /\ inflight' = Head(_commandQueue)
                  /\ _commandQueue' = Tail(_commandQueue)
                  /\ socketWrites' = socketWrites
                       \o WriteCommand(Head(_commandQueue),
                                       submitted[Head(_commandQueue)])
                  /\ IF _pendingTokens = <<>>
                     THEN _pendingTokens' = <<>> /\ _tokenResolver'
                     ELSE /\ awaited' = Head(_pendingTokens)
                          /\ _pendingTokens' = Tail(_pendingTokens)]_vars

\* C3 witness: a command was rejected by the server's error frame and the
\* command submitted after it was completed with its own reply
C3_Witness ==
  \E k \in DOMAIN completion :
    /\ k + 1 \in DOMAIN completion /\ k + 1 <= Len(sent)
    /\ sent[k] = "err" /\ completion[k] = Rejected(JsError(<<"E">>))
    /\ sent[k + 1] = "ok" /\ completion[k + 1] = Resolved(JsString(<<"A">>))

\* C4: transport error fanout.  Once the byte stream has closed, no
\* completion is left pending (all were rejected when it closed) and no
\* further submission is accepted.
C4_TransportErrorFanout ==
  [][~streamOpen
       => /\ Len(submitted') = Len(submitted)
          /\ \A k \in DOMAIN completion : completion[k].st = "rejected"
               \/ completion[k].st = "resolved"
          /\ \A k \in DOMAIN completion' : completion'[k].st # "pending"]_vars

\* C8: after close() a submission is refused: it is not appended to the
\* command queue, nothing is written to the socket for it, and its
\* completion is not left pending.
C8_SubmitAfterCloseRefused ==
  [][(socketEnded /\ Len(submitted') > Len(submitted))
       => /\ _commandQueue' = _commandQueue
          /\ socketWrites' = socketWrites
          /\ completion'[Len(completion')].st # "pending"]_vars

\* the pump is about to resume with a line whose first byte is no RESP type
UnknownTypeByte ==
  /\ _running /\ respPc = "ready"
  /\ awaited.k = "str" /\ awaited.b # <<>>
  /\ Head(awaited.b) \notin {"+", "-", ":", "*", "$"}

\* C9: an unknown type byte is fatal to the connection.  When the pump
\* resumes with such a line, the command in flight and every queued command
\* are failed (none is left pending, the queue is emptied), and from then on
\* no submission is accepted.
C9_UnknownTypeFatal ==
  [][/\ (UnknownTypeByte /\ respPc' # "ready")
          => /\ _commandQueue' = <<>>
             /\ \A k \in DOMAIN completion' : completion'[k].st # "pending"
     /\ respPc = "threw" => Len(submitted') = Len(submitted)]_vars

\* an argument the inline form can carry: short text with no blank, CR or LF
InlineSafe(arg) ==
  /\ arg.k = "str"
  /\ JsLength(arg) < InlineThreshold
  /\ \A i \in DOMAIN arg.b : arg.b[i] \notin {" ", "CR", "LF"}

\* C10: the inline form is only put on the wire for plain short text.
\* Every command written as its arguments joined by blanks plus CRLF has
\* only arguments that are short text free of blanks and CR/LF.
C10_InlineOnlyPlainText ==
  \A i \in DOMAIN socketWrites :
    LET e == socketWrites[i] IN
    (e.op = "write" /\ e.data = Join(submitted[e.id].cmd) \o CRLF)
      => \A a \in DOMAIN submitted[e.id].cmd :
           InlineSafe(submitted[e.id].cmd[a])

---------------------------------------------------------------------------
(* Properties of the values handed to the submitter (checked under SpecVal)*)

\* the frames that are a top-level error
ErrorFrames == {"err", "errcode"}

\* the bytes of a one-line frame between its type byte and its CRLF
FrameText(name) ==
  SubSeq(Frames[name].bytes, 2, Len(Frames[name].bytes) - 2)

\* the first command's reply was an error frame that arrived in the first
\* chunk, and the command has been completed
FirstReplyIsError ==
  /\ fed = 1 /\ Len(sent) >= 1 /\ sent[1] \in ErrorFrames
  /\ Len(completion) >= 1 /\ completion[1].st # "pending"

C11_State ==
  FirstReplyIsError
    => completion[1] = [st |-> "rejected",
                        v  |-> [t |-> "err", v |-> FrameText(sent[1])]]

C11_Step ==
  (TopLevelErrorReply /\ (inflight' # inflight \/ respPc' # respPc))
    => completion'[inflight] =
         [st |-> "rejected",
          v  |-> [t |-> "err", v |-> SubSeq(awaited.b, 2, Len(awaited.b))]]

\* C11: the text of a top-level error frame reaches the submitter verbatim.
\* When the pump resumes with an error line, the command in flight is
\* rejected with an Error whose message is every byte of the line after the
\* leading '-', code token included; and a command whose error reply arrived
\* whole in the first chunk is rejected with exactly the bytes the server
\* put between '-' and CRLF.
C11_ErrorTextVerbatim == []C11_State /\ [][C11_Step]_vars

\* C11 witness: the server answered -C m and the submitter got Error 'C m'
C11_Witness ==
  /\ FirstReplyIsError /\ sent[1] = "errcode"
  /\ completion[1].st = "rejected"
  /\ completion[1].v.v = <<"C", " ", "m">>

---------------------------------------------------------------------------
(* Properties of array replies (checked under SpecArr)                     *)

RECURSIVE Within(_)
\* a value tree and every tree inside it
Within(w) ==
  IF w.t = "arr"
  THEN {w} \cup UNION {Within(w.v[i]) : i \in 1..Len(w.v)}
  ELSE {w}

\* the array the server sent
TheArray == sent[1]

\* C12: array recursion.  For an array whose elements, at every depth, are
\* integers, simple strings, bulk strings, nulls or arrays, the first reply
\* is the structurally identical nested array, elements in wire order, and
\* the reply after it is the next frame: the array took exactly the tokens
\* of its elements.
C12_ArrayRecursion ==
  (JsError(<<"E">>) \notin Within(TheArray) /\ Len(replies) >= 1)
    => /\ replies[1] = Meaning(TheArray)
       /\ Len(replies) >= 2 => replies[2] = Meaning(Sentinel)

\* a tree none of whose parts is an error or an empty bulk string
Plain(w) == \A x \in Within(w) : x \notin {JsError(<<"E">>), Bulk(<<>>)}

\* the reply after the array is the frame after the array
NextReplyIsNextFrame == Len(replies) >= 2 => replies[2] = Meaning(Sentinel)

\* C13: a null bulk string that is an element of an array keeps its place.
\* The reply to an array of count n with null elements is an array of
\* length n, null at each position of a null element and every other
\* element at its own position, and the array ends where it should.
C13_NullElementKeepsPosition ==
  (Len(replies) >= 1 /\ Plain(TheArray) /\ NullBulk \in Within(TheArray))
    => /\ replies[1].t = "arr"
       /\ Len(replies[1].v) = Len(TheArray.v)
       /\ \A i \in 1..Len(TheArray.v) :
            IF TheArray.v[i] = NullBulk
            THEN replies[1].v[i] = [t |-> "null"]
            ELSE replies[1].v[i] = Meaning(TheArray.v[i])
       /\ NextReplyIsNextFrame

\* C13 witness: *2 $-1 :1 was decoded to [null, 1], then +A to 'A'
C13_Witness ==
  /\ TheArray = JsArray(<<NullBulk, JsNumber(Num(1))>>)
  /\ replies = <<JsArray(<<[t |-> "null"], JsNumber(Num(1))>>),
                 JsString(<<"A">>)>>

\* C14: *0 decodes to the empty array, which is not null, and takes no token
\* beyond its header: as a whole reply the frame after it is the next reply,
\* as an element the elements after it keep their positions.
C14_EmptyArray ==
  (Len(replies) >= 1 /\ Plain(TheArray))
    => /\ TheArray = JsArray(<<>>)
            => (replies[1] = [t |-> "arr", v |-> <<>>] /\ replies[1] # Null)
       /\ replies[1].t = "arr" /\ Len(replies[1].v) = Len(TheArray.v)
       /\ \A i \in 1..Len(TheArray.v) :
            IF TheArray.v[i] = JsArray(<<>>)
            THEN replies[1].v[i] = [t |-> "arr", v |-> <<>>]
            ELSE replies[1].v[i] = Meaning(TheArray.v[i])
       /\ NextReplyIsNextFrame

\* C14 witness: *0 was decoded to [] and the +A after it to 'A'
C14_Witness ==
  /\ TheArray = JsArray(<<>>)
  /\ replies = <<[t |-> "arr", v |-> <<>>], JsString(<<"A">>)>>

---------------------------------------------------------------------------
(* Properties of the catalog's argument checks (checked under SpecCat)     *)

\* the name of a queued command and its sub-command
CommandName(q) == q.cmd[1].b
SubCommand(q)  == q.cmd[2].b

\* no XINFO CONSUMERS without a group name and no XGROUP other than destroy
\* without an id or consumer name has reached the command queue
C15_State ==
  \A k \in DOMAIN submitted :
    LET q == submitted[k] IN
    /\ (CommandName(q) = <<"X", "I", "N", "F", "O">>
          /\ SubCommand(q) = <<"C", "O", "N", "S", "U", "M", "E", "R", "S">>)
         => (Len(q.cmd) = 4 /\ q.cmd[4].b # <<>>)
    /\ (CommandName(q) = <<"X", "G", "R", "O", "U", "P">>
          /\ SubCommand(q) # <<"d", "e", "s", "t", "r", "o", "y">>)
         => Len(q.cmd) = 5

\* a call that throws leaves the client, its parser and its socket as they
\* were
C15_Step ==
  thrown' # thrown
    => /\ _commandQueue' = _commandQueue /\ _running' = _running
       /\ socketWrites' = socketWrites /\ socketEnded' = socketEnded
       /\ submitted' = submitted /\ completion' = completion
       /\ inflight' = inflight
       /\ UNCHANGED <<parserVars, respVars, piped>>

\* C15: argument validation fails before any effect.  xinfo('consumers',
\* key) without a group name and xgroup of a type other than 'destroy'
\* without an id or consumer name never reach the command queue; the call
\* throws, and the throw changes neither the queue, the pump flag, the
\* socket nor the parser, so that the commands that follow find the
\* connection as it was.
C15_ValidationBeforeEffect == []C15_State /\ [][C15_Step]_vars

\* C15 witness: the first call threw, the command submitted after it was
\* written and completed with its reply
C15_Witness ==
  /\ thrown # <<>> /\ thrown[1].at = 0
  /\ Len(completion) = 1 /\ completion[1] = Resolved(JsString(<<"A">>))
  /\ socketWrites # <<>>

---------------------------------------------------------------------------
(* Properties of the pump's writes (checked under Spec)                    *)

\* the positions in socketWrites of the calls made for command k
CallsOf(k) == {i \in DOMAIN socketWrites : socketWrites[i].id = k}

\* the ids of the commands the pump has written
Written == {socketWrites[i].id : i \in DOMAIN socketWrites} \ {0}

RECURSIVE DataOf(_, _)
\* the bytes written for command k by the calls from position i on
DataOf(k, i) ==
  IF i > Len(socketWrites) THEN <<>>
  ELSE (IF socketWrites[i].id = k /\ socketWrites[i].op = "write"
        THEN socketWrites[i].data ELSE <<>>) \o DataOf(k, i + 1)

\* the RESP array of bulk strings that carries a command
ArrayForm(cmd) == Encode(JsArray([i \in 1..Len(cmd) |-> Bulk(cmd[i].b)]))

\* C16: each command is written atomically.  The calls made on the socket
\* for one command are consecutive (a call for the command that follows a
\* call for another command, or an end(), is the command's first): between
\* the first and the last of them there is none for another command; and
\* their bytes are the command's complete encoding, up to its final CRLF.
C16_WriteAtomic ==
  \A k \in Written :
    /\ \A i \in CallsOf(k) :
         (i > 1 /\ socketWrites[i - 1].id # k)
           => \A j \in 1..(i - 1) : socketWrites[j].id # k
    /\ DataOf(k, 1) =
         IF submitted[k].inline THEN Join(submitted[k].cmd) \o CRLF
         ELSE ArrayForm(submitted[k].cmd)

\* C16 witness: two commands were written, the second in the array form,
\* the second submitted while the first awaited its reply
C16_Witness ==
  /\ Written = {1, 2}
  /\ ~submitted[2].inline
  /\ Cardinality(CallsOf(2)) > 3

---------------------------------------------------------------------------
(* Bulk string replies (checked under SpecVal)                             *)

\* C17: a bulk string reply is delivered as raw bytes.  A command whose
\* reply, a non-null bulk string of L bytes, arrived whole in the first
\* chunk is resolved with a byte value holding exactly those L bytes, not
\* with a text decoded from them.
C17_BulkRawBytes ==
  (fed = 1 /\ Len(sent) >= 1 /\ sent[1] \in {"bulk", "binbulk"}
     /\ Len(completion) >= 1 /\ completion[1].st # "pending")
    => /\ completion[1].st = "resolved"
       /\ completion[1].v = Frames[sent[1]].val
       /\ completion[1].v.t = "bulk"

---------------------------------------------------------------------------
(* Properties of the pump's scheduling (checked under Spec)                *)

\* the written commands whose completion is still pending
Outstanding == {k \in Written : completion[k].st = "pending"}

C18_State == Cardinality(Outstanding) <= 1

\* a command is written only in a step after which every command written
\* before it is settled
C18_Step ==
  \A k \in DOMAIN submitted' :
    (k \notin Written /\ \E i \in DOMAIN socketWrites' : socketWrites'[i].id = k)
      => \A j \in Written : completion'[j].st # "pending"

\* C18: one command outstanding at a time.  At every moment at most one
\* written command has its completion pending, and the pump writes a
\* command only when the completion of every command written before it has
\* been settled.
C18_OneOutstanding == []C18_State /\ [][C18_Step]_vars

\* C18 witness: the first command has been settled, the second has been
\* written after that and is the one awaiting its reply
C18_Witness ==
  /\ Written = {1, 2}
  /\ completion[1].st # "pending" /\ completion[2].st = "pending"
  /\ inflight = 2 /\ respPc = "await"

\* a body of _run_command_queue is suspended at its await
LoopAlive == respPc \in {"await", "ready"}

C19_State == LoopAlive => _running

\* a submission made while _running is true only appends to the queue; a
\* submission that writes is one made when no loop is alive
C19_Step ==
  Len(submitted') > Len(submitted)
    => /\ _running
            => /\ socketWrites' = socketWrites
               /\ UNCHANGED <<parserVars, respVars, inflight, _running>>
               /\ _commandQueue' = Append(_commandQueue, Len(submitted'))
       /\ socketWrites' # socketWrites => (~_running /\ ~LoopAlive)

\* C19: single-flight pump.  A loop suspended at its await is always
\* covered by the flag _running; a submission made while the flag is set
\* appends to the queue and returns without writing to the socket or
\* touching the parser; a submission starts a loop only when none is alive.
C19_SingleFlight == []C19_State /\ [][C19_Step]_vars

\* C19 witness: a command was submitted while the loop was suspended and
\* waits in the queue
C19_Witness ==
  /\ _running /\ respPc = "await"
  /\ _commandQueue = <<2>> /\ inflight = 1
  /\ Written = {1}

---------------------------------------------------------------------------
(* Properties of the decoder's token hand-over (checked under Spec)        *)

\* C20: the token FIFO and the receiver slot exclude each other.  When a
\* resolver is stored the FIFO is empty, when the FIFO holds a token no
\* resolver is stored, and a stored resolver belongs to the one getResponse
\* that is suspended: there is never a second receiver.  This holds through
\* every interleaving of _write, getResponse and dispose.
C20_FifoExcludesReceiver ==
  /\ _tokenResolver => _pendingTokens = <<>>
  /\ _pendingTokens # <<>> => ~_tokenResolver
  /\ _tokenResolver => respPc = "await"
  /\ respPc = "ready" => ~_tokenResolver

\* C20 witness: a chunk brought several tokens while a receiver waited: the
\* first went to the receiver, whose slot is now empty, the rest are queued
C20_Witness ==
  /\ respPc = "ready" /\ ~_tokenResolver
  /\ _pendingTokens # <<>>
  /\ fed >= 1

---------------------------------------------------------------------------
(* Properties of the pump-active flag (checked under Spec)                 *)

C21_State == _commandQueue # <<>> => _running

\* a submission puts its command in the queue or in flight, with the pump
\* running afterwards; the flag goes from true to false only in a step that
\* leaves the queue empty
C21_Step ==
  /\ Len(submitted') > Len(submitted)
       => /\ _running'
          /\ \/ _commandQueue' = Append(_commandQueue, Len(submitted'))
             \/ inflight' = Len(submitted')
  /\ (_running /\ ~_running') => _commandQueue' = <<>>

\* C21: a non-empty queue has a running pump.  Whenever control is back in
\* the event loop, a non-empty command queue implies _running; a submission
\* appends its command (or hands it straight to the pump it starts) and
\* leaves the flag set; the flag is cleared only when the queue has drained.
C21_QueueImpliesRunning == []C21_State /\ [][C21_Step]_vars

\* C21 witness: the pump was started by the first submission, the second
\* command is queued behind it, and the flag is set
C21_Witness ==
  /\ _commandQueue = <<2>> /\ _running
  /\ inflight = 1 /\ completion[1].st = "pending"
  /\ respPc \in {"await", "ready"}

---------------------------------------------------------------------------
(* Properties of bulk collection (checked under SpecBulk)                  *)

\* the bytes of the bulk frame (header, payload, CRLF) not yet delivered
BulkBytesMissing == Len(inbound) - Len(Encode(Sentinel))

\* C22: bulk collection.  After the header $len (len > 0) no token is
\* emitted from the following bytes until len + 2 of them are buffered; the
\* reply is then exactly the len payload bytes as one bulk string, whatever
\* the payload contains (CR LF included) and however it is cut into chunks;
\* afterwards the decoder is back in line scanning.
C22_BulkCollection ==
  /\ BulkBytesMissing > 0
       => /\ _pendingTokens = <<>>
          /\ replies = <<>>
          /\ respPc # "ready"
  /\ Len(replies) >= 1 => replies[1] = Meaning(sent[1])
  /\ (BulkBytesMissing <= 0 /\ ~parserFault)
       => NumEq(_remainingBulkStringBytes, -1)

---------------------------------------------------------------------------
(* Properties of malformed length fields (checked under SpecLen)           *)

\* C23: a malformed length is fatal.  When the first reply is a bulk or
\* array header whose length is not a base-10 integer, or is negative and
\* not -1, no command is resolved with a value made from it, and once the
\* header has been delivered and processed every pending command has been
\* failed.
C23_MalformedLengthFatal ==
  (Len(sent) >= 1 /\ sent[1] \in MalformedLengths)
    => /\ completion[1].st # "resolved"
       /\ (inbound = <<>> /\ fed >= 1 /\ respPc # "ready")
            => \A k \in 1..Len(completion) : completion[k].st = "rejected"

---------------------------------------------------------------------------
(* Properties of the single token receiver (checked under SpecTwo)         *)

\* the chunk handed to _write in a step that delivers bytes
ChunkFed == SubSeq(inbound, 1, Len(inbound) - Len(inbound'))

TokensOfChunk ==
  _processReadBuffers(add(_readBuffer, ChunkFed),
                      _remainingBulkStringBytes).out

C24_Step ==
  /\ (respPc = "await" /\ _tokenResolver /\ fed' = fed)
       => /\ thrown' = Append(thrown, [msg |-> AlreadyWaiting,
                                       at  |-> Len(replies)])
          /\ UNCHANGED <<_tokenResolver, _pendingTokens, _readBuffer,
                         _remainingBulkStringBytes, respVars, replies>>
  /\ (thrown # <<>> /\ respPc = "await" /\ fed' = fed + 1
        /\ TokensOfChunk # <<>>)
       => /\ respPc' = "ready"
          /\ awaited' = Head(TokensOfChunk)
          /\ respStack' = respStack

\* C24: one receiver at a time.  A getResponse call made while another
\* receiver is stored fails with 'already waiting for token'; the stored
\* receiver, the token FIFO, the chunk queue and the suspended call are
\* unchanged, and the next token still goes to the first receiver.
C24_SecondReceiverRefused == [][C24_Step]_vars

\* C24 witness: a second call was refused while the first call awaited its
\* first token, and the first call then completed with the first reply
C24_Witness ==
  /\ thrown # <<>> /\ thrown[1].msg = AlreadyWaiting /\ thrown[1].at = 0
  /\ Len(replies) >= 1 /\ replies[1] = Expected(sent[1])

---------------------------------------------------------------------------
(* Properties of MultiBuffer (checked under SpecMB)                        *)

RECURSIVE SumOfLengths(_)
SumOfLengths(bufs) ==
  IF bufs = <<>> THEN 0 ELSE Len(Head(bufs)) + SumOfLengths(Tail(bufs))

\* the last call, when there was one
LastCall == replies[1]

\* C25: length is the sum.  After any sequence of add and shift calls,
\* shift(0), splitting shifts and failed shifts included, the length of the
\* MultiBuffer equals the sum of the lengths of the buffers it holds.
C25_LengthIsSum == _readBuffer.length = SumOfLengths(_readBuffer.buffers)

\* C25 witness: a shift has just split a buffer and bytes remain
C25_Witness ==
  /\ replies # <<>> /\ LastCall.op = "shift" /\ ~LastCall.threw
  /\ LastCall.n = 1
  /\ _readBuffer.buffers # <<>> /\ Len(Head(_readBuffer.buffers)) = 2
  /\ _readBuffer.length >= 3

C26_Step ==
  (fed' = fed + 1 /\ replies'[1].op = "shift"
     /\ replies'[1].n <= _readBuffer.length)
    => /\ ~replies'[1].threw
       /\ replies'[1].out
            = SubSeq(Concat(_readBuffer.buffers), 1, replies'[1].n)
       /\ replies'[1].out \o Concat(_readBuffer'.buffers)
            = Concat(_readBuffer.buffers)
       /\ _readBuffer'.length = _readBuffer.length - replies'[1].n

\* C26: shift returns the first n bytes.  For 0 <= n <= length, shift(n)
\* returns exactly the first n bytes of the content as one buffer, also
\* when they span several held buffers; the returned bytes followed by the
\* remaining content are the content before the call, and length has
\* decreased by n.
C26_ShiftReturnsPrefix == [][C26_Step]_vars

\* C26 witness: a shift has returned three bytes taken from more than one
\* held buffer and left bytes behind
C26_Witness ==
  /\ replies # <<>> /\ LastCall.op = "shift" /\ ~LastCall.threw
  /\ LastCall.n = 3 /\ LastCall.out = <<"a", "CR", "LF">>
  /\ _readBuffer.buffers = <<<<"a">>>>

C27_Step ==
  (fed' = fed + 1 /\ replies'[1].op = "shift"
     /\ replies'[1].n > _readBuffer.length)
    => /\ replies'[1].threw
       /\ _readBuffer' = _readBuffer

\* C27: shift past the end fails.  shift(n) with n greater than length
\* throws and leaves the held buffers and length as they were.
C27_ShiftPastEndFails == [][C27_Step]_vars

\* C27 witness: a shift for more than is held has failed on a MultiBuffer
\* that holds two buffers
C27_Witness ==
  /\ replies # <<>> /\ LastCall.op = "shift" /\ LastCall.threw
  /\ Len(_readBuffer.buffers) = 2
  /\ LastCall.n = _readBuffer.length + 1

\* C28: indexOf finds the first CR LF.  indexOf('\r\n') returns the offset
\* of the first CR LF in the concatenation of the held buffers, also when
\* the CR ends one buffer and the LF starts the next, and -1 only when the
\* concatenation holds none.
C28_IndexOfFirstCrlf ==
  (replies # <<>> /\ LastCall.op = "indexOf")
    => LastCall.idx = BufferIndexOf(Concat(_readBuffer.buffers))

---------------------------------------------------------------------------
(* Properties of the array form (checked under SpecEnc)                    *)

\* C29: the array form.  A command not written inline goes out as *N CRLF
\* followed by exactly N bulk strings, one per argument in order, each
\* $<byte length> CRLF <bytes> CRLF; no argument is written as another
\* frame type or left out.
C29_ArrayFormAllBulk ==
  \A k \in Written :
    ~submitted[k].inline => DataOf(k, 1) = ArrayForm(submitted[k].cmd)

---------------------------------------------------------------------------
(* Properties of the pump under backpressure (checked under SpecFlow)      *)

\* the write calls made after position m, up to the next 'drain'
WritesWhileFull(m) ==
  {i \in Positions("write") :
     /\ i > m
     /\ \A d \in Positions("drain") : d > m => i < d}

\* C30: the pump honours backpressure.  Once a write has returned false the
\* pump makes no further write, neither the rest of the command nor the
\* next command, until the socket has drained: between the moment the
\* socket is full and its 'drain' there is at most one write call.
C30_BackpressureHonoured ==
  \A m \in Positions("full") : Cardinality(WritesWhileFull(m)) <= 1

---------------------------------------------------------------------------
(* Properties of corking (checked under Spec)                              *)

RECURSIVE BurstScan(_, _)
\* the calls on the socket from position i on, read in order; open is the
\* command whose cork() has not been matched by an uncork() yet, 0 when the
\* socket is not corked
BurstScan(i, open) ==
  IF i > Len(socketWrites) THEN open = 0
  ELSE LET e == socketWrites[i] IN
       CASE e.op = "cork" ->
              /\ open = 0
              /\ ~submitted[e.id].inline
              /\ BurstScan(i + 1, e.id)
         [] e.op = "uncork" ->
              /\ open = e.id
              /\ BurstScan(i + 1, 0)
         [] e.op = "write" ->
              /\ open = (IF submitted[e.id].inline THEN 0 ELSE e.id)
              /\ BurstScan(i + 1, open)
         [] OTHER ->
              /\ open = 0
              /\ BurstScan(i + 1, open)

\* C31: an array-form command is one burst.  Every write of an array-form
\* command lies between the cork() and the uncork() made for that command,
\* there is one cork() and one uncork() per such command, an uncork()
\* matches the cork() before it, and whenever the pump is suspended (in
\* every state) the socket is not corked.
C31_CorkedBurst ==
  /\ BurstScan(1, 0)
  /\ \A k \in Written :
       ~submitted[k].inline
         => Cardinality({i \in Positions("cork") : socketWrites[i].id = k}) = 1

\* C31 witness: the array-form command 2 has been written after command 1
\* and the pump awaits its reply
C31_Witness ==
  /\ Len(submitted) = 2 /\ ~submitted[2].inline
  /\ inflight = 2 /\ respPc = "await"
  /\ socketWrites[Len(socketWrites)] = UncorkEvent(2)

---------------------------------------------------------------------------
(* Properties of connect() (checked under SpecConn)                        *)

\* C32: connect() settles once.  Before any event the promise is pending
\* with both listeners registered.  After the first event the promise is
\* resolved with a new client if that event was 'connect' and rejected if
\* it was 'error'; resolve or reject has been called once, no listener is
\* left, and later events of either kind change neither the promise nor
\* the number of clients.
C32_ConnectSettlesOnce ==
  IF connection.emitted = <<>>
  THEN connection = Connecting
  ELSE /\ connection.settled = 1
       /\ connection.listeners = {}
       /\ connection.promise =
            (IF connection.emitted[1] = "connect" THEN "resolved"
             ELSE "rejected")
       /\ connection.clients =
            (IF connection.emitted[1] = "connect" THEN 1 ELSE 0)

\* C32 witness: 'connect' fired first and 'error' after it; the promise is
\* resolved, there is one client and it has a command in flight
C32_Witness ==
  /\ connection.emitted = <<"connect", "error">>
  /\ connection.promise = "resolved" /\ connection.clients = 1
  /\ inflight = 1

---------------------------------------------------------------------------
(* Properties of completions (checked under Spec)                          *)

\* the commands whose resolve and reject the client still holds: those in
\* the queue and the one the pump took out of it
Held == {_commandQueue[i] : i \in DOMAIN _commandQueue} \cup ({inflight} \ {0})

C33_State ==
  /\ \A k \in Held : completion[k].st = "pending"
  /\ \A i, j \in DOMAIN _commandQueue :
       i # j => _commandQueue[i] # _commandQueue[j]
  /\ \A i \in DOMAIN _commandQueue : _commandQueue[i] # inflight

C33_Step ==
  /\ \A k \in DOMAIN completion :
       completion[k].st # "pending" => completion'[k] = completion[k]
  /\ \A k \in DOMAIN completion :
       completion'[k] # completion[k] => k = inflight /\ k \notin Held'

\* C33: a completion is settled at most once.  resolve and reject of a
\* command are held in one place only (the queue, or the pump once it has
\* shifted the command out) and only while the command is unsettled; the
\* only completion a step settles is the in-flight one, which leaves the
\* pump's hands in that step, and a settled completion never changes
\* again, whatever the interleaving of submissions, replies and close().
C33_SettledAtMostOnce == []C33_State /\ [][C33_Step]_vars

\* C33 witness: the first command was resolved, the second rejected, and
\* close() has been called since
C33_Witness ==
  /\ Len(completion) = 2
  /\ completion[1].st = "resolved" /\ completion[2].st = "rejected"
  /\ socketEnded

---------------------------------------------------------------------------
(* Properties of the pump after a failed getResponse (checked under Spec)  *)

\* C34: the flag is never left set without a loop.  In every state where
\* _running is true a body of _run_command_queue is suspended at its await
\* (waiting for a token or about to resume with one), also after
\* getResponse has thrown; a command queued behind it is written later.
C34_RunningHasLiveLoop == _running => LoopAlive

---------------------------------------------------------------------------
(* Properties of close() during a command (checked under Spec)             *)

\* close() was called while the pump awaited a token: the loop is still
\* suspended and its receiver is gone
Stalled == socketEnded /\ respPc = "await" /\ ~_tokenResolver

C35_State ==
  Stalled => /\ _running
             /\ \A k \in Held : completion[k].st = "pending"

C35_Step ==
  /\ (respPc = "await" /\ ~socketEnded /\ socketEnded')
       => /\ Stalled'
          /\ completion' = completion
          /\ _commandQueue' = _commandQueue /\ inflight' = inflight
  /\ Stalled
       => /\ Stalled' /\ _running'
          /\ \A k \in DOMAIN completion : completion'[k] = completion[k]
          /\ socketWrites' = socketWrites
          /\ inflight' = inflight
          /\ \A i \in DOMAIN _commandQueue :
               _commandQueue'[i] = _commandQueue[i]

\* C35: close() during a command strands the pump.  When close() is called
\* while the pump awaits a reply, dispose() drops the stored receiver and
\* the suspended loop is not woken; from then on, in every step, the
\* in-flight command and the queued commands stay unsettled, nothing is
\* written any more, the queue only grows and _running stays true.
C35_CloseStrandsPump == []C35_State /\ [][C35_Step]_vars

\* C35 witness: the pump is stranded with command 1 in flight and command 2
\* in the queue, both unsettled
C35_Witness ==
  /\ Stalled /\ _running
  /\ inflight = 1 /\ _commandQueue = <<2>>
  /\ completion[1].st = "pending" /\ completion[2].st = "pending"

---------------------------------------------------------------------------
(* Properties of unsolicited replies (checked under SpecPush)              *)

\* the number of frames of which the pump has taken the token: one per
\* settled command
Consumed ==
  Cardinality({k \in DOMAIN completion : completion[k].st # "pending"})

\* C36: an unsolicited reply is kept and shifts the correlation.  A frame
\* delivered while the client is idle stays in the token FIFO (when the
\* client is idle and every byte sent has been delivered, the FIFO holds one
\* token per frame that settled no command); a command that is settled is
\* settled with the
\* frame at its own position in the stream, unsolicited frames counted: the
\* command submitted after an unsolicited frame gets that frame, and each
\* later command the reply meant for the one before it.
C36_StaleReplyShiftsCorrelation ==
  /\ \A k \in DOMAIN completion :
       completion[k].st # "pending"
         => (k <= Len(sent) /\ completion[k] = ExpectedCompletion(sent[k]))
  /\ (~_running /\ inbound = <<>> /\ _readBuffer.length = 0)
       => Len(_pendingTokens) = Len(sent) - Consumed

\* C36 witness: an unsolicited :1 arrived before the first command, which
\* was then resolved with 1; the second command was resolved with the reply
\* sent for the first
C36_Witness ==
  /\ Len(sent) >= 2 /\ sent[1] = "int"
  /\ Len(completion) = 2
  /\ completion[1] = Resolved(JsNumber(Num(1)))
  /\ completion[2] = ExpectedCompletion(sent[2])

---------------------------------------------------------------------------
(* Properties of the token kind (checked under SpecKind)                   *)

TypeCharacters == {"+", "-", ":", "*", "$"}

\* C37: the token kind is carried out of band.  The reply to a bulk string
\* whose payload begins with +, -, :, * or $ is the payload as bulk content;
\* no part of the payload is handed to getResponse as a line, so it is
\* never read as a simple string, error, integer, array header or bulk
\* header.
C37_BulkNeverDispatchedAsLine ==
  /\ (Len(replies) = 0 /\ respPc = "ready") => awaited.k = "buf"
  /\ (Len(replies) = 0 /\ respPc # "ready" /\ _pendingTokens # <<>>)
       => Head(_pendingTokens).k = "buf"
  /\ Len(replies) >= 1
       => /\ Head(sent[1].v) \in TypeCharacters
          /\ replies[1] = JsString(toString(sent[1].v))

---------------------------------------------------------------------------
(* Properties of the engine's use of the decoder (checked under Spec)      *)

\* getResponse is entered by a submission that starts the pump and by the
\* pump when it resumes; at both points no resolver is stored
C38_State ==
  /\ ~_running => ~_tokenResolver
  /\ (_running /\ respPc = "ready") => ~_tokenResolver

\* a getResponse that throws is one that was resumed with a token; none
\* throws on entry
C38_Step ==
  /\ (respPc' = "threw" /\ respPc # "threw") => respPc = "ready"
  /\ (Len(submitted') > Len(submitted) /\ ~_running)
       => respPc' \in {"await", "ready"}

\* C38: the engine has one getResponse outstanding at most.  Whenever the
\* engine calls getResponse (a submission that starts the pump, the pump
\* resuming) no receiver is stored in the decoder, so _getNextToken never
\* throws 'already waiting for token': the only getResponse that throws is
\* one resumed with a token it cannot read.
C38_AlreadyWaitingUnreachable == []C38_State /\ [][C38_Step]_vars

\* C38 witness: the getResponse of command 2 waits for its token after the
\* one of command 1 has returned
C38_Witness ==
  /\ Len(completion) = 2 /\ completion[1].st # "pending"
  /\ inflight = 2 /\ respPc = "await" /\ _tokenResolver
  /\ ~socketEnded

---------------------------------------------------------------------------
(* Properties of dispose() (checked under Spec, where close() calls it)    *)

\* the decoder holds what a new decoder holds, the receiver aside
DecoderEmpty ==
  /\ _readBuffer = EmptyMultiBuffer
  /\ _remainingBulkStringBytes = Num(-1)
  /\ _pendingTokens = <<>>

C39_State == socketEnded => DecoderEmpty

C39_Step ==
  /\ (~socketEnded /\ socketEnded') => (DecoderEmpty' /\ ~_tokenResolver')
  /\ socketEnded
       => \A k \in DOMAIN completion :
            completion'[k] # completion[k]
              => (respPc = "ready" /\ _pendingTokens' = <<>>)

\* C39: dispose() resets the decoder.  Whatever the decoder held when
\* dispose() ran (chunks, a bulk string half collected, tokens, a receiver),
\* afterwards the chunk queue is empty, _remainingBulkStringBytes is -1, the
\* token FIFO is empty and no receiver is stored; nothing buffered before
\* comes back: the decoder stays empty, and a command settled later is
\* settled from the token its getResponse already had in hand.
C39_DisposeResets == []C39_State /\ [][C39_Step]_vars

\* C39 witness: dispose() ran while the payload of a bulk string was half
\* collected (header and payload byte delivered, CR LF not yet) and a
\* receiver was stored; the decoder is empty
C39_Witness ==
  /\ socketEnded /\ DecoderEmpty /\ ~_tokenResolver
  /\ sent = <<"bulk">> /\ fed = 1 /\ Len(inbound) = 2
  /\ respPc = "await"

=============================================================================
